---------------------------- MODULE Spec2Model ----------------------------
(***************************************************************************)
(* A model of pyclimacell: the two field filters (process_v3_fields,       *)
(* process_v4_fields), the time-range validator (validate_timerange), the  *)
(* timezone normalisation (dt_to_utc), and the call path of the ClimaCellV3*)
(* and ClimaCellV4 clients from invocation to the classified HTTP outcome. *)
(*                                                                         *)
(* Time is counted in minutes.  A Python datetime is a record              *)
(* [some, t |-> wall-clock minute, aware, off |-> UTC offset in minutes];  *)
(* a timedelta is an integer number of minutes; None is the string "None". *)
(***************************************************************************)
EXTENDS Integers, Sequences, FiniteSets, TLC

VARIABLES
  pc,        \* position of the call in progress
  call,      \* the operation invoked and its arguments
  frame,     \* local variables of the call (normalised times, params)
  now,       \* the wall clock, datetime.utcnow(), in minutes
  requests,  \* HTTP requests dispatched by the call in progress
  log,       \* warnings written to _LOGGER by the call in progress
  result     \* what the call returned or raised

vars == <<pc, call, frame, now, requests, log, result>>

---------------------------------------------------------------------------
(* const.py *)

DAILY == "daily"
HOURLY == "hourly"
NOWCAST == "nowcast"
REALTIME == "realtime"
FORECASTS == "forecasts"

FORECAST_NOWCAST == "nowcast"
FORECAST_HOURLY == "forecast/hourly"
FORECAST_DAILY == "forecast/daily"
HISTORICAL_CLIMACELL == "historical/climacell"
HISTORICAL_STATION == "historical/station"

FORECAST_NOWCAST_MAX_AGE == [unit |-> "minutes", n |-> 360]
FORECAST_HOURLY_MAX_AGE == [unit |-> "hours", n |-> 96]
FORECAST_DAILY_MAX_AGE == [unit |-> "days", n |-> 15]
HISTORICAL_CLIMACELL_MAX_AGE == [unit |-> "hours", n |-> 6]
HISTORICAL_STATION_MAX_INTERVAL == [unit |-> "hours", n |-> 24]
HISTORICAL_STATION_MAX_AGE == [unit |-> "weeks", n |-> 4]

FIELDS_V3 ==
  <<
    [name |-> "temp",                          endpoints |-> <<REALTIME, FORECAST_NOWCAST, FORECAST_HOURLY, FORECAST_DAILY, HISTORICAL_CLIMACELL, HISTORICAL_STATION>>],
    [name |-> "feels_like",                    endpoints |-> <<REALTIME, FORECAST_NOWCAST, FORECAST_HOURLY, FORECAST_DAILY, HISTORICAL_CLIMACELL, HISTORICAL_STATION>>],
    [name |-> "dewpoint",                      endpoints |-> <<REALTIME, FORECAST_NOWCAST, FORECAST_HOURLY, HISTORICAL_CLIMACELL, HISTORICAL_STATION>>],
    [name |-> "humidity",                      endpoints |-> <<REALTIME, FORECAST_NOWCAST, FORECAST_HOURLY, FORECAST_DAILY, HISTORICAL_CLIMACELL, HISTORICAL_STATION>>],
    [name |-> "wind_speed",                    endpoints |-> <<REALTIME, FORECAST_NOWCAST, FORECAST_HOURLY, FORECAST_DAILY, HISTORICAL_CLIMACELL, HISTORICAL_STATION>>],
    [name |-> "wind_direction",                endpoints |-> <<REALTIME, FORECAST_NOWCAST, FORECAST_HOURLY, FORECAST_DAILY, HISTORICAL_CLIMACELL, HISTORICAL_STATION>>],
    [name |-> "wind_gust",                     endpoints |-> <<REALTIME, FORECAST_NOWCAST, FORECAST_HOURLY, HISTORICAL_CLIMACELL, HISTORICAL_STATION>>],
    [name |-> "baro_pressure",                 endpoints |-> <<REALTIME, FORECAST_NOWCAST, FORECAST_HOURLY, FORECAST_DAILY, HISTORICAL_CLIMACELL, HISTORICAL_STATION>>],
    [name |-> "precipitation",                 endpoints |-> <<REALTIME, FORECAST_NOWCAST, FORECAST_HOURLY, FORECAST_DAILY, HISTORICAL_CLIMACELL, HISTORICAL_STATION>>],
    [name |-> "precipitation_type",            endpoints |-> <<REALTIME, FORECAST_NOWCAST, FORECAST_HOURLY, HISTORICAL_CLIMACELL, HISTORICAL_STATION>>],
    [name |-> "precipitation_probability",     endpoints |-> <<FORECAST_HOURLY, FORECAST_DAILY>>],
    [name |-> "precipitation_accumulation",    endpoints |-> <<FORECAST_DAILY>>],
    [name |-> "sunrise",                       endpoints |-> <<REALTIME, FORECAST_NOWCAST, FORECAST_HOURLY, FORECAST_DAILY, HISTORICAL_CLIMACELL>>],
    [name |-> "sunset",                        endpoints |-> <<REALTIME, FORECAST_NOWCAST, FORECAST_HOURLY, FORECAST_DAILY, HISTORICAL_CLIMACELL>>],
    [name |-> "visibility",                    endpoints |-> <<REALTIME, FORECAST_NOWCAST, FORECAST_HOURLY, FORECAST_DAILY, HISTORICAL_CLIMACELL, HISTORICAL_STATION>>],
    [name |-> "cloud_cover",                   endpoints |-> <<REALTIME, FORECAST_NOWCAST, FORECAST_HOURLY, HISTORICAL_CLIMACELL, HISTORICAL_STATION>>],
    [name |-> "cloud_base",                    endpoints |-> <<REALTIME, FORECAST_NOWCAST, FORECAST_HOURLY, HISTORICAL_CLIMACELL, HISTORICAL_STATION>>],
    [name |-> "cloud_ceiling",                 endpoints |-> <<REALTIME, FORECAST_NOWCAST, FORECAST_HOURLY, HISTORICAL_CLIMACELL, HISTORICAL_STATION>>],
    [name |-> "surface_shortwave_radiation",   endpoints |-> <<REALTIME, FORECAST_NOWCAST, FORECAST_HOURLY, HISTORICAL_CLIMACELL>>],
    [name |-> "moon_phase",                    endpoints |-> <<REALTIME, FORECAST_HOURLY>>],
    [name |-> "weather_code",                  endpoints |-> <<REALTIME, FORECAST_NOWCAST, FORECAST_HOURLY, FORECAST_DAILY, HISTORICAL_CLIMACELL>>],
    [name |-> "weather_groups",                endpoints |-> <<HISTORICAL_STATION>>],
    [name |-> "pm25",                          endpoints |-> <<REALTIME, FORECAST_NOWCAST, FORECAST_HOURLY, HISTORICAL_CLIMACELL>>],
    [name |-> "pm10",                          endpoints |-> <<REALTIME, FORECAST_NOWCAST, FORECAST_HOURLY, HISTORICAL_CLIMACELL>>],
    [name |-> "o3",                            endpoints |-> <<REALTIME, FORECAST_NOWCAST, FORECAST_HOURLY, HISTORICAL_CLIMACELL>>],
    [name |-> "no2",                           endpoints |-> <<REALTIME, FORECAST_NOWCAST, FORECAST_HOURLY, HISTORICAL_CLIMACELL>>],
    [name |-> "co",                            endpoints |-> <<REALTIME, FORECAST_NOWCAST, FORECAST_HOURLY, HISTORICAL_CLIMACELL>>],
    [name |-> "so2",                           endpoints |-> <<REALTIME, FORECAST_NOWCAST, FORECAST_HOURLY, HISTORICAL_CLIMACELL>>],
    [name |-> "epa_aqi",                       endpoints |-> <<REALTIME, FORECAST_NOWCAST, FORECAST_HOURLY, HISTORICAL_CLIMACELL>>],
    [name |-> "epa_primary_pollutant",         endpoints |-> <<REALTIME, FORECAST_NOWCAST, FORECAST_HOURLY, HISTORICAL_CLIMACELL>>],
    [name |-> "epa_health_concern",            endpoints |-> <<REALTIME, FORECAST_NOWCAST, FORECAST_HOURLY, HISTORICAL_CLIMACELL>>],
    [name |-> "china_aqi",                     endpoints |-> <<REALTIME, FORECAST_NOWCAST, FORECAST_HOURLY, HISTORICAL_CLIMACELL>>],
    [name |-> "china_primary_pollutant",       endpoints |-> <<REALTIME, FORECAST_NOWCAST, FORECAST_HOURLY, HISTORICAL_CLIMACELL>>],
    [name |-> "china_health_concern",          endpoints |-> <<REALTIME, FORECAST_NOWCAST, FORECAST_HOURLY, HISTORICAL_CLIMACELL>>],
    [name |-> "pollen_tree",                   endpoints |-> <<REALTIME, FORECAST_NOWCAST, FORECAST_HOURLY, HISTORICAL_CLIMACELL>>],
    [name |-> "pollen_weed",                   endpoints |-> <<REALTIME, FORECAST_NOWCAST, FORECAST_HOURLY, HISTORICAL_CLIMACELL>>],
    [name |-> "pollen_grass",                  endpoints |-> <<REALTIME, FORECAST_NOWCAST, FORECAST_HOURLY, HISTORICAL_CLIMACELL>>],
    [name |-> "road_risk_score",               endpoints |-> <<REALTIME, FORECAST_NOWCAST, FORECAST_HOURLY, HISTORICAL_CLIMACELL>>],
    [name |-> "road_risk_confidence",          endpoints |-> <<REALTIME, FORECAST_NOWCAST, FORECAST_HOURLY, HISTORICAL_CLIMACELL>>],
    [name |-> "road_risk_conditions",          endpoints |-> <<REALTIME, FORECAST_NOWCAST, FORECAST_HOURLY, HISTORICAL_CLIMACELL>>],
    [name |-> "fire_index",                    endpoints |-> <<REALTIME, HISTORICAL_CLIMACELL>>]
  >>


MIN == "Min"
MAX == "Max"
AVG == "Avg"

TYPE_WEATHER == "weather"
TYPE_POLLEN == "pollen"
TYPE_AIR_QUALITY == "air_quality"
TYPE_FIRE == "fire"
TYPE_SOLAR == "solar"
TYPE_PRECIPITATION == "precipitation"

ALL_MEASUREMENTS == <<MIN, MAX, AVG>>
NO_AVG == <<MIN, MAX>>

CURRENT == "current"

FIELDS_V4 ==
  <<
    [name |-> "temperature",               timestep |-> <<-6, 360>>, measurements |-> ALL_MEASUREMENTS, type |-> TYPE_WEATHER],
    [name |-> "temperatureApparent",       timestep |-> <<-6, 360>>, measurements |-> ALL_MEASUREMENTS, type |-> TYPE_WEATHER],
    [name |-> "dewPoint",                  timestep |-> <<-6, 360>>, measurements |-> ALL_MEASUREMENTS, type |-> TYPE_WEATHER],
    [name |-> "humidity",                  timestep |-> <<-6, 360>>, measurements |-> ALL_MEASUREMENTS, type |-> TYPE_WEATHER],
    [name |-> "windSpeed",                 timestep |-> <<-6, 360>>, measurements |-> ALL_MEASUREMENTS, type |-> TYPE_WEATHER],
    [name |-> "windDirection",             timestep |-> <<-6, 360>>, measurements |-> <<AVG>>, type |-> TYPE_WEATHER],
    [name |-> "windGust",                  timestep |-> <<-6, 360>>, measurements |-> ALL_MEASUREMENTS, type |-> TYPE_WEATHER],
    [name |-> "pressureSurfaceLevel",      timestep |-> <<-6, 360>>, measurements |-> ALL_MEASUREMENTS, type |-> TYPE_WEATHER],
    [name |-> "pressureSeaLevel",          timestep |-> <<-6, 360>>, measurements |-> ALL_MEASUREMENTS, type |-> TYPE_WEATHER],
    [name |-> "precipitationIntensity",    timestep |-> <<-6, 360>>, measurements |-> ALL_MEASUREMENTS, type |-> TYPE_PRECIPITATION],
    [name |-> "precipitationProbability",  timestep |-> <<0, 360>>, measurements |-> ALL_MEASUREMENTS, type |-> TYPE_PRECIPITATION],
    [name |-> "precipitationType",         timestep |-> <<-6, 108>>, measurements |-> <<>>, type |-> TYPE_PRECIPITATION],
    [name |-> "hailBinary",                timestep |-> <<-6, 48>>, measurements |-> <<>>, type |-> TYPE_PRECIPITATION],
    [name |-> "solarGHI",                  timestep |-> <<-6, 360>>, measurements |-> ALL_MEASUREMENTS, type |-> TYPE_SOLAR],
    [name |-> "solarDNI",                  timestep |-> <<-6, 360>>, measurements |-> ALL_MEASUREMENTS, type |-> TYPE_SOLAR],
    [name |-> "solarDHI",                  timestep |-> <<-6, 360>>, measurements |-> ALL_MEASUREMENTS, type |-> TYPE_SOLAR],
    [name |-> "visibility",                timestep |-> <<-6, 360>>, measurements |-> ALL_MEASUREMENTS, type |-> TYPE_WEATHER],
    [name |-> "cloudCover",                timestep |-> <<-6, 360>>, measurements |-> ALL_MEASUREMENTS, type |-> TYPE_WEATHER],
    [name |-> "cloudBase",                 timestep |-> <<-6, 360>>, measurements |-> ALL_MEASUREMENTS, type |-> TYPE_WEATHER],
    [name |-> "cloudCeiling",              timestep |-> <<-6, 360>>, measurements |-> ALL_MEASUREMENTS, type |-> TYPE_WEATHER],
    [name |-> "weatherCode",               timestep |-> <<-6, 360>>, measurements |-> NO_AVG, type |-> TYPE_WEATHER],
    [name |-> "particulateMatter25",       timestep |-> <<-6, 108>>, measurements |-> ALL_MEASUREMENTS, type |-> TYPE_AIR_QUALITY],
    [name |-> "particulateMatter10",       timestep |-> <<-6, 108>>, measurements |-> ALL_MEASUREMENTS, type |-> TYPE_AIR_QUALITY],
    [name |-> "pollutantO3",               timestep |-> <<-6, 108>>, measurements |-> ALL_MEASUREMENTS, type |-> TYPE_AIR_QUALITY],
    [name |-> "pollutantNO2",              timestep |-> <<-6, 108>>, measurements |-> ALL_MEASUREMENTS, type |-> TYPE_AIR_QUALITY],
    [name |-> "pollutantCO",               timestep |-> <<-6, 108>>, measurements |-> ALL_MEASUREMENTS, type |-> TYPE_AIR_QUALITY],
    [name |-> "pollutantSO2",              timestep |-> <<-6, 108>>, measurements |-> ALL_MEASUREMENTS, type |-> TYPE_AIR_QUALITY],
    [name |-> "mepIndex",                  timestep |-> <<-6, 108>>, measurements |-> ALL_MEASUREMENTS, type |-> TYPE_AIR_QUALITY],
    [name |-> "mepPrimaryPollutant",       timestep |-> <<-6, 108>>, measurements |-> <<>>, type |-> TYPE_AIR_QUALITY],
    [name |-> "mepHealthConcern",          timestep |-> <<-6, 108>>, measurements |-> ALL_MEASUREMENTS, type |-> TYPE_AIR_QUALITY],
    [name |-> "epaIndex",                  timestep |-> <<-6, 108>>, measurements |-> ALL_MEASUREMENTS, type |-> TYPE_AIR_QUALITY],
    [name |-> "epaPrimaryPollutant",       timestep |-> <<-6, 108>>, measurements |-> <<>>, type |-> TYPE_AIR_QUALITY],
    [name |-> "epaHealthConcern",          timestep |-> <<-6, 108>>, measurements |-> ALL_MEASUREMENTS, type |-> TYPE_AIR_QUALITY],
    [name |-> "treeIndex",                 timestep |-> <<-6, 108>>, measurements |-> ALL_MEASUREMENTS, type |-> TYPE_POLLEN],
    [name |-> "grassIndex",                timestep |-> <<-6, 108>>, measurements |-> ALL_MEASUREMENTS, type |-> TYPE_POLLEN],
    [name |-> "grassGrassIndex",           timestep |-> <<-6, 108>>, measurements |-> ALL_MEASUREMENTS, type |-> TYPE_POLLEN],
    [name |-> "weedIndex",                 timestep |-> <<-6, 108>>, measurements |-> ALL_MEASUREMENTS, type |-> TYPE_POLLEN],
    [name |-> "weedRagweedIndex",          timestep |-> <<-6, 108>>, measurements |-> ALL_MEASUREMENTS, type |-> TYPE_POLLEN],
    [name |-> "fireIndex",                 timestep |-> <<-6, 0>>, measurements |-> ALL_MEASUREMENTS, type |-> TYPE_WEATHER]
  >>

---------------------------------------------------------------------------
(* Python values and built-ins used by the code *)

None == "None"

\* x in list
InList(x, list) == \E i \in DOMAIN list : list[i] = x

\* set(list)
ToSet(list) == {list[i] : i \in DOMAIN list}

\* key in FIELDS_V3 / FIELDS_V3[key]
InFieldsV3(field) == \E i \in DOMAIN FIELDS_V3 : FIELDS_V3[i].name = field

GetFieldsV3(field) ==
  FIELDS_V3[CHOOSE i \in DOMAIN FIELDS_V3 : FIELDS_V3[i].name = field].endpoints

\* key in FIELDS_V4 / FIELDS_V4[key]
InFieldsV4(field) == \E i \in DOMAIN FIELDS_V4 : FIELDS_V4[i].name = field

GetFieldsV4(field) ==
  FIELDS_V4[CHOOSE i \in DOMAIN FIELDS_V4 : FIELDS_V4[i].name = field]

\* ",".join(list): a Python str, kept as its run of name and separator tokens
RECURSIVE JoinTokens(_)
JoinTokens(list) ==
  IF Len(list) = 0 THEN <<>>
  ELSE IF Len(list) = 1 THEN <<list[1]>>
  ELSE <<list[1], ",">> \o JoinTokens(Tail(list))

Join(list) == [type |-> "str", tokens |-> JoinTokens(list)]

\* A function's outcome: the exception raised (None when it returned), the value
\* returned, and the warnings it logged on the way.
Returned(value, warnings) ==
  [exc |-> None, msg |-> "", ret |-> value, log |-> warnings]

Raised(exception, warnings) ==
  [exc |-> exception, msg |-> "", ret |-> None, log |-> warnings]

RaisedMsg(exception, message) ==
  [exc |-> exception, msg |-> message, ret |-> None, log |-> <<>>]

\* timedelta(days=..) etc., in minutes
MinutesPerUnit(unit) ==
  CASE unit = "minutes" -> 1
    [] unit = "hours" -> 60
    [] unit = "days" -> 1440
    [] unit = "weeks" -> 10080

timedelta(kwargs) == kwargs.n * MinutesPerUnit(kwargs.unit)

\* A datetime: wall-clock minute t, and when aware its UTC offset in minutes.
\* NoneDt stands for a missing (None) datetime argument.
Naive(t) == [some |-> TRUE, t |-> t, aware |-> FALSE, off |-> 0]
Aware(t, off) == [some |-> TRUE, t |-> t, aware |-> TRUE, off |-> off]
NoneDt == [some |-> FALSE, t |-> 0, aware |-> FALSE, off |-> 0]

\* the instant an aware datetime denotes, as minutes of UTC
UtcMinute(dt) == dt.t - dt.off

\* Comparing or subtracting an aware and a naive datetime raises TypeError.
MixedAwareness(a, b) == a.aware # b.aware

DtMinute(dt) == IF dt.aware THEN UtcMinute(dt) ELSE dt.t

\* a - b for two datetimes of the same awareness
DtSub(a, b) == DtMinute(a) - DtMinute(b)

\* a dict of timedelta keywords, or None
NoneDict == [unit |-> None, n |-> 0]

---------------------------------------------------------------------------
(* pyclimacell.py: the field filters *)

InvalidFieldsWarning(fields, valid_fields) ==
  IF Len(valid_fields) < Len(fields)
  THEN << [msg |-> "Removed invalid fields", target |-> None,
           fields |-> ToSet(fields) \ ToSet(valid_fields)] >>
  ELSE <<>>

\* a faulty stage-2 diagnostic: it names the fields that were kept
UnavailableFieldsWarningKept(target, valid_fields, processed_fields) ==
  IF Len(processed_fields) < Len(valid_fields)
  THEN << [msg |-> "Remove fields not available", target |-> target,
           fields |-> ToSet(processed_fields)] >>
  ELSE <<>>

UnavailableFieldsWarning(target, valid_fields, processed_fields) ==
  IF Len(processed_fields) < Len(valid_fields)
  THEN << [msg |-> "Remove fields not available", target |-> target,
           fields |-> ToSet(valid_fields) \ ToSet(processed_fields)] >>
  ELSE <<>>

\* a faulty availability test: any catalog field, whatever the endpoint
V3AvailableAnywhere(field, endpoint) == Len(GetFieldsV3(field)) > 0

V3Available(field, endpoint) == InList(endpoint, GetFieldsV3(field))

\* a faulty legacy filter: the first applicable field is left out
process_v3_fields_drops_first(fields, endpoint) ==
  LET valid_fields == SelectSeq(fields, InFieldsV3)
      Avail(field) == V3Available(field, endpoint)
      applicable == SelectSeq(valid_fields, Avail)
      processed_fields == IF Len(applicable) = 0 THEN applicable ELSE Tail(applicable)
  IN  Returned(Join(processed_fields),
               InvalidFieldsWarning(fields, valid_fields)
               \o UnavailableFieldsWarning(endpoint, valid_fields, processed_fields))

process_v3_fields(fields, endpoint) ==
  LET valid_fields == SelectSeq(fields, InFieldsV3)
      Avail(field) == V3Available(field, endpoint)
      processed_fields == SelectSeq(valid_fields, Avail)
  IN  Returned(Join(processed_fields),
               InvalidFieldsWarning(fields, valid_fields)
               \o UnavailableFieldsWarning(endpoint, valid_fields, processed_fields))

\* The branch of process_v4_fields a timestep selects
TimestepBranch(timestep) ==
  IF timestep = timedelta([unit |-> "days", n |-> 1]) THEN "daily"
  ELSE IF timestep = timedelta([unit |-> "hours", n |-> 1]) THEN "hourly"
  ELSE IF timestep \in { timedelta([unit |-> "minutes", n |-> 30]),
                         timedelta([unit |-> "minutes", n |-> 15]),
                         timedelta([unit |-> "minutes", n |-> 5]),
                         timedelta([unit |-> "minutes", n |-> 1]) } THEN "minutes"
  ELSE IF timestep = 0 THEN "current"
  ELSE IF timestep < 0 THEN "historical"
  ELSE "invalid"

\* a faulty availability test: the zero timestep asks for min < 0
V4AvailableStrictCurrent(field, branch) ==
  LET range == GetFieldsV4(field).timestep
  IN  CASE branch = "daily" -> range[2] = 360
        [] branch = "hourly" -> range[2] >= 108
        [] branch = "minutes" -> range[2] >= 6
        [] branch = "current" -> range[1] < 0 /\ range[2] >= 0
        [] branch = "historical" -> range[1] < 0

V4Available(field, branch) ==
  LET range == GetFieldsV4(field).timestep
  IN  CASE branch = "daily" -> range[2] = 360
        [] branch = "hourly" -> range[2] >= 108
        [] branch = "minutes" -> range[2] >= 6
        [] branch = "current" -> range[1] <= 0 /\ range[2] >= 0
        [] branch = "historical" -> range[1] < 0

process_v4_fields(fields, timestep) ==
  LET valid_fields == SelectSeq(fields, InFieldsV4)
      branch == TimestepBranch(timestep)
      Avail(field) == V4Available(field, branch)
      processed_fields == SelectSeq(valid_fields, Avail)
  IN  IF branch = "invalid"
      THEN Raised("InvalidTimestep", InvalidFieldsWarning(fields, valid_fields))
      ELSE Returned(processed_fields,
                    InvalidFieldsWarning(fields, valid_fields)
                    \o UnavailableFieldsWarning(timestep, valid_fields, processed_fields))

---------------------------------------------------------------------------
(* pyclimacell.py: timezone normalisation and the time-range validator *)

\* astimezone(pytz.utc) keeps the instant and sets the offset to zero
dt_to_utc(input_dt) ==
  IF input_dt.some /\ input_dt.aware
  THEN Aware(UtcMinute(input_dt), 0)
  ELSE input_dt

MSG_INTERVAL == "The duration specified exceeds the maximum interval"
MSG_START_PAST == "start_time must be now or in the future"
MSG_START_AGE == "The start_time + duration exceeds the maximum forecastability"
MSG_END_FUTURE == "end_time must be now or in the past"
MSG_END_AGE ==
  "The end_time - duration exceeds the maximum historical data accessibility"
MSG_DURATION_AGE ==
  "The duration specified exceeds the maximum forecastability or historical data accessibility"
MSG_MIXED == "can't compare offset-naive and offset-aware datetimes"

\* the if start_time: block
CheckStartTime(start_time, utcnow, duration, age_delta) ==
  IF ~start_time.some THEN Returned(None, <<>>)
  ELSE IF MixedAwareness(start_time, utcnow) THEN RaisedMsg("TypeError", MSG_MIXED)
  ELSE IF DtSub(start_time, utcnow) < 0 THEN RaisedMsg("ValueError", MSG_START_PAST)
  ELSE IF DtSub(start_time, utcnow) + duration > age_delta
       THEN RaisedMsg("ValueError", MSG_START_AGE)
  ELSE Returned(None, <<>>)

\* a faulty end_time block: the test for an end_time after now is missing
CheckEndTimeNoFuture(end_time, utcnow, duration, age_delta) ==
  IF ~end_time.some THEN Returned(None, <<>>)
  ELSE IF MixedAwareness(end_time, utcnow) THEN RaisedMsg("TypeError", MSG_MIXED)
  ELSE IF DtSub(utcnow, end_time) - duration < age_delta
       THEN RaisedMsg("ValueError", MSG_END_AGE)
  ELSE Returned(None, <<>>)

\* the if end_time: block
CheckEndTime(end_time, utcnow, duration, age_delta) ==
  IF ~end_time.some THEN Returned(None, <<>>)
  ELSE IF MixedAwareness(end_time, utcnow) THEN RaisedMsg("TypeError", MSG_MIXED)
  ELSE IF DtSub(end_time, utcnow) > 0 THEN RaisedMsg("ValueError", MSG_END_FUTURE)
  ELSE IF DtSub(utcnow, end_time) - duration < age_delta
       THEN RaisedMsg("ValueError", MSG_END_AGE)
  ELSE Returned(None, <<>>)

\* the if interval_delta and duration > interval_delta: test
ExceedsInterval(duration, max_interval) ==
  /\ max_interval # NoneDict
  /\ timedelta(max_interval) # 0
  /\ duration > timedelta(max_interval)

\* validate_timerange; clock is the minute datetime.utcnow() returns when it runs
validate_timerange(start_time, end_time, duration, max_age, max_interval, clock) ==
  LET utcnow == Naive(clock)
      age_delta == timedelta(max_age)
      started == CheckStartTime(start_time, utcnow, duration, age_delta)
      ended == CheckEndTime(end_time, utcnow, duration, age_delta)
  IN  IF ExceedsInterval(duration, max_interval)
      THEN RaisedMsg("ValueError", MSG_INTERVAL)
      ELSE IF started.exc # None THEN started
      ELSE IF ended.exc # None THEN ended
      ELSE IF duration > age_delta THEN RaisedMsg("ValueError", MSG_DURATION_AGE)
      ELSE Returned(None, <<>>)

---------------------------------------------------------------------------
(* pyclimacell.py: the constructors *)

\* str.lower() on the unit-system selectors that are passed in
lower(s) ==
  CASE s = "US" -> "us"
    [] s = "Us" -> "us"
    [] s = "SI" -> "si"
    [] s = "Si" -> "si"
    [] s = "IMPERIAL" -> "imperial"
    [] s = "Imperial" -> "imperial"
    [] s = "METRIC" -> "metric"
    [] s = "Metric" -> "metric"
    [] s = "Kelvin" -> "kelvin"
    [] OTHER -> s

\* A latitude or longitude is an int, a float or a str holding a number, here
\* in tenths of a degree.  float(x) and str(x):
float(x) == [type |-> "float", tenths |-> x.tenths]
str(x) == [type |-> "str", tenths |-> x.tenths]

HEADERS == [content_type |-> "application/json"]

MSG_UNITS_V4 == "unit_system must be metric or imperial"
MSG_UNITS_V3 == "unit_system must be si or us"

\* the object a constructor leaves behind; session is whether the caller
\* passed one
Self(unit_system, session, params, apikey) ==
  [unit_system |-> unit_system, session |-> session, params |-> params,
   headers |-> [content_type |-> HEADERS.content_type, apikey |-> apikey]]

\* ClimaCellV4.__init__
ClimaCellV4__init__(apikey, latitude, longitude, unit_system, session) ==
  IF lower(unit_system) \notin {"metric", "imperial", "si", "us"}
  THEN RaisedMsg("ValueError", MSG_UNITS_V4)
  ELSE LET units == IF lower(unit_system) = "si" THEN "metric"
                    ELSE IF lower(unit_system) = "us" THEN "imperial"
                    ELSE unit_system
       IN  Returned(Self(lower(units), session,
                         [location |-> <<float(latitude), float(longitude)>>,
                          units |-> lower(units)],
                         apikey),
                    <<>>)

\* a faulty ClimaCellV3.__init__: the selector is stored as it was passed
ClimaCellV3__init__keeps_case(apikey, latitude, longitude, unit_system, session) ==
  IF lower(unit_system) \notin {"us", "si"}
  THEN RaisedMsg("ValueError", MSG_UNITS_V3)
  ELSE Returned(Self(unit_system, session,
                     [lat |-> str(latitude), lon |-> str(longitude),
                      unit_system |-> unit_system],
                     apikey),
                <<>>)

\* ClimaCellV3.__init__
ClimaCellV3__init__(apikey, latitude, longitude, unit_system, session) ==
  IF lower(unit_system) \notin {"us", "si"}
  THEN RaisedMsg("ValueError", MSG_UNITS_V3)
  ELSE Returned(Self(lower(unit_system), session,
                     [lat |-> str(latitude), lon |-> str(longitude),
                      unit_system |-> lower(unit_system)],
                     apikey),
                <<>>)

\* the default of the unit_system parameter
DefaultUnitSystem(client) == IF client = "v3" THEN "us" ELSE "imperial"

\* the arguments of a constructor call: has_unit_system is FALSE when the
\* selector is left to its default, session is whether one is passed
NoArgs ==
  [apikey |-> "key", latitude |-> [type |-> "int", tenths |-> 0],
   longitude |-> [type |-> "int", tenths |-> 0], has_unit_system |-> FALSE,
   unit_system |-> "", session |-> FALSE]

\* ClimaCellV3(...), ClimaCellV4(...) and the Sync classes, which pass their
\* first four arguments on and no session
Construct(client, sync, args) ==
  LET unit_system == IF args.has_unit_system THEN args.unit_system
                     ELSE DefaultUnitSystem(client)
      session == IF sync THEN FALSE ELSE args.session
  IN  IF client = "v3"
      THEN ClimaCellV3__init__(args.apikey, args.latitude, args.longitude,
                               unit_system, session)
      ELSE ClimaCellV4__init__(args.apikey, args.latitude, args.longitude,
                               unit_system, session)

\* the clients the method calls below are made on
NoSelf == Self(None, FALSE, [unit_system |-> None], None)
DefaultV3 == Construct("v3", FALSE, NoArgs).ret
DefaultV4 == Construct("v4", FALSE, NoArgs).ret

---------------------------------------------------------------------------
(* Bounds and input sets *)

\* longest requested field list drawn from a pool
MaxLen == 3

SeqsUpTo(S, n) == UNION {[1..k -> S] : k \in 0..n}

V3Keys == {FIELDS_V3[i].name : i \in DOMAIN FIELDS_V3}
V4Keys == {FIELDS_V4[i].name : i \in DOMAIN FIELDS_V4}

\* one field of every distinct endpoint list of FIELDS_V3, and two names that
\* are not keys of it
V3Pool ==
  { "temp", "dewpoint", "precipitation_probability", "precipitation_accumulation",
    "sunrise", "moon_phase", "weather_groups", "pm25", "fire_index",
    "temperature", "no_such_field" }

\* one field of every distinct range and measurement list of FIELDS_V4, and two
\* names that are not keys of it
V4Pool ==
  { "temperature", "windDirection", "precipitationProbability", "precipitationType",
    "hailBinary", "weatherCode", "treeIndex", "fireIndex",
    "temp", "no_such_field" }

V3FieldLists == SeqsUpTo(V3Pool, MaxLen) \cup {<<f>> : f \in V3Keys}
V4FieldLists == SeqsUpTo(V4Pool, MaxLen) \cup {<<f>> : f \in V4Keys}

V3Endpoints ==
  { REALTIME, FORECAST_NOWCAST, FORECAST_HOURLY, FORECAST_DAILY,
    HISTORICAL_CLIMACELL, HISTORICAL_STATION }

\* the six endpoints and an identifier that is none of them
V3Targets == V3Endpoints \cup {"forecast/weekly"}

\* timedelta values handed to the modern filter, in minutes: the six recognised
\* granularities, zero, negative ones, and positive ones that are none of the six
RecognisedTimesteps == {1440, 60, 30, 15, 5, 1}
V4Timesteps == RecognisedTimesteps \cup {0, -1, -60, -1440} \cup {2, 10, 45, 120, 2880}

---------------------------------------------------------------------------
(* State *)

NoResult == [exc |-> "pending", msg |-> "", ret |-> None, log |-> <<>>]

\* client is "v3" or "v4" for a method of ClimaCellV3 or ClimaCellV4, and None
\* for a module-level function; has_duration is FALSE when duration is None;
\* timestep is forecast_nowcast's keyword argument; self is the client the
\* method is called on and sync whether its class is a Sync one; args are the
\* arguments of a constructor call; forecast_fields is the second list of
\* realtime_and_all_forecasts; types is the second argument of
\* ClimaCellV4.available_fields, and has_types is FALSE when it is None.
NoCall ==
  [client |-> None, op |-> None, fields |-> <<>>, target |-> None,
   start_time |-> NoneDt, end_time |-> NoneDt, has_duration |-> TRUE,
   duration |-> 0, timestep |-> 5, max_age |-> NoneDict,
   max_interval |-> NoneDict, self |-> NoSelf, sync |-> FALSE,
   args |-> NoArgs, forecast_fields |-> <<>>, has_types |-> FALSE,
   types |-> <<>>]

NoResponse == [kind |-> None, status |-> 0, body |-> None]

\* now: the clock as the call last read it; validation: what validate_timerange
\* did in this call ("pending": it was not run); response: what the transport
\* gave back; body_read: whether resp.json() was called; second: what a second
\* function applied to the result of the first gave; session: the session
\* _call_api is using or last used ("supplied", or its own one, "open" and then
\* "closed"); opened, closed: how many sessions of its own the call has opened
\* and closed; first: the answer to the first of two requests; loop: the event
\* loop of asyncio.run ("none" for an asynchronous call); returned: what the
\* blocking call gave its caller.
NoFrame ==
  [now |-> 0, start_time |-> NoneDt, end_time |-> NoneDt,
   validation |-> NoResult, response |-> NoResponse, body_read |-> FALSE,
   second |-> NoResult, session |-> "none", opened |-> 0, closed |-> 0,
   first |-> NoResponse, loop |-> "none", returned |-> NoResult]

FilterV3Calls ==
  { [NoCall EXCEPT !.op = "process_v3_fields", !.fields = f, !.target = e] :
      f \in V3FieldLists, e \in V3Targets }

FilterV4Calls ==
  { [NoCall EXCEPT !.op = "process_v4_fields", !.fields = f, !.target = t] :
      f \in V4FieldLists, t \in V4Timesteps }

InitWith(calls) ==
  /\ pc = "called"
  /\ call \in calls
  /\ frame = NoFrame
  /\ now = 0
  /\ requests = <<>>
  /\ log = <<>>
  /\ result = NoResult

\* a direct call of process_v3_fields(fields, endpoint)
FilterV3 ==
  /\ pc = "called"
  /\ call.op = "process_v3_fields"
  /\ result' = process_v3_fields(call.fields, call.target)
  /\ log' = log \o result'.log
  /\ pc' = "done"
  /\ UNCHANGED <<call, frame, now, requests>>

\* a direct call of process_v4_fields(fields, timestep)
FilterV4 ==
  /\ pc = "called"
  /\ call.op = "process_v4_fields"
  /\ result' = process_v4_fields(call.fields, call.target)
  /\ log' = log \o result'.log
  /\ pc' = "done"
  /\ UNCHANGED <<call, frame, now, requests>>

InitFilters == InitWith(FilterV3Calls) \/ InitWith(FilterV4Calls)
NextFilters == FilterV3 \/ FilterV4
SpecFilters == InitFilters /\ [][NextFilters]_vars

---------------------------------------------------------------------------
(* Direct calls of validate_timerange *)

\* how far around each boundary of the validator the times and durations range
Slack == 1

\* how many minutes the clock may advance before the validator reads it
MaxTick == 1

\* largest max_age, in minutes, of the policies that are not an endpoint's
MaxAge == 2

Near(x) == {x + k : k \in -Slack..Slack}

Policy(max_age, max_interval) == [max_age |-> max_age, max_interval |-> max_interval]

\* the five endpoint policies the client passes
EndpointPolicies ==
  { Policy(FORECAST_NOWCAST_MAX_AGE, NoneDict),
    Policy(FORECAST_HOURLY_MAX_AGE, NoneDict),
    Policy(FORECAST_DAILY_MAX_AGE, NoneDict),
    Policy(HISTORICAL_CLIMACELL_MAX_AGE, NoneDict),
    Policy(HISTORICAL_STATION_MAX_AGE, HISTORICAL_STATION_MAX_INTERVAL) }

SmallPolicies ==
  { Policy([unit |-> "minutes", n |-> a], i) :
      a \in 1..MaxAge, i \in {NoneDict, [unit |-> "minutes", n |-> 1]} }

Policies == EndpointPolicies \cup SmallPolicies

Durations(p) ==
  { d \in Near(0) \cup Near(timedelta(p.max_age))
           \cup (IF p.max_interval = NoneDict THEN {}
                 ELSE Near(timedelta(p.max_interval))) : d >= 0 }

\* UTC offsets, in minutes, of the aware datetimes a caller passes
TzOffsets == {0, 60, -300}

\* the datetimes that denote UTC minute m
Representations(m) == {Naive(m)} \cup {Aware(m + off, off) : off \in TzOffsets}

\* UTC minutes of a start_time, around now and around the forecast horizon
StartMinutes(p, d) == Near(0) \cup Near(timedelta(p.max_age) - d) \cup {-60, 60}

\* UTC minutes of an end_time, around now and around the historical horizon
EndMinutes(p, d) ==
  Near(0) \cup Near(d - timedelta(p.max_age)) \cup Near(0 - d - timedelta(p.max_age))
  \cup {-60, 60}

WithPolicy(base, p) ==
  [base EXCEPT !.max_age = p.max_age, !.max_interval = p.max_interval]

\* calls with a duration and no start_time or end_time
BareCalls(base, p) == {[WithPolicy(base, p) EXCEPT !.duration = d] : d \in Durations(p)}

\* calls with a duration and a start_time
StartCalls(base, p) ==
  UNION { {[WithPolicy(base, p) EXCEPT !.duration = d, !.start_time = s] :
             s \in UNION {Representations(m) : m \in StartMinutes(p, d)}}
          : d \in Durations(p) }

\* calls with a duration and an end_time
EndCalls(base, p) ==
  UNION { {[WithPolicy(base, p) EXCEPT !.duration = d, !.end_time = e] :
             e \in UNION {Representations(m) : m \in EndMinutes(p, d)}}
          : d \in Durations(p) }

ValidateCalls ==
  LET base == [NoCall EXCEPT !.op = "validate_timerange"]
  IN  UNION { BareCalls(base, p) \cup StartCalls(base, p) \cup EndCalls(base, p) :
              p \in Policies }

\* time passes before the call reads the clock
Tick ==
  /\ pc = "called"
  /\ call.client = None
  /\ now < MaxTick
  /\ now' = now + 1
  /\ UNCHANGED <<pc, call, frame, requests, log, result>>

\* a direct call of validate_timerange
Validate ==
  /\ pc = "called"
  /\ call.op = "validate_timerange"
  /\ result' = validate_timerange(call.start_time, call.end_time, call.duration,
                                  call.max_age, call.max_interval, now)
  /\ frame' = [frame EXCEPT !.now = now]
  /\ pc' = "done"
  /\ UNCHANGED <<call, now, requests, log>>

InitValidate == InitWith(ValidateCalls)
NextValidate == Validate \/ Tick
SpecValidate == InitValidate /\ [][NextValidate]_vars

---------------------------------------------------------------------------
(* pyclimacell.py: the clients *)

\* isoformat() of replace(microsecond=0): the text of a timestamp, which ends
\* in a UTC offset exactly when the datetime is aware
isoformat(dt) == [text |-> "iso-8601", t |-> dt.t, has_offset |-> dt.aware, off |-> dt.off]

\* the literal end_time "now" of a historical request
NowText == [text |-> "now", t |-> 0, has_offset |-> FALSE, off |-> 0]

\* dt + timedelta
DtPlus(dt, minutes) == [dt EXCEPT !.t = dt.t + minutes]

\* the endpoint, max_age and max_interval the public methods of ClimaCellV3 pass
V3ForecastOps == {"forecast_nowcast", "forecast_hourly", "forecast_daily"}
V3HistoricalOps == {"historical_climacell", "historical_station"}

V3Endpoint(op) ==
  CASE op = "realtime" -> REALTIME
    [] op = "forecast_nowcast" -> FORECAST_NOWCAST
    [] op = "forecast_hourly" -> FORECAST_HOURLY
    [] op = "forecast_daily" -> FORECAST_DAILY
    [] op = "historical_climacell" -> HISTORICAL_CLIMACELL
    [] op = "historical_station" -> HISTORICAL_STATION

V3Policy(op) ==
  CASE op = "forecast_nowcast" -> Policy(FORECAST_NOWCAST_MAX_AGE, NoneDict)
    [] op = "forecast_hourly" -> Policy(FORECAST_HOURLY_MAX_AGE, NoneDict)
    [] op = "forecast_daily" -> Policy(FORECAST_DAILY_MAX_AGE, NoneDict)
    [] op = "historical_climacell" -> Policy(HISTORICAL_CLIMACELL_MAX_AGE, NoneDict)
    [] op = "historical_station" ->
         Policy(HISTORICAL_STATION_MAX_AGE, HISTORICAL_STATION_MAX_INTERVAL)

\* ClimaCellV3._forecast / _historical up to the validator: the normalised time
\* and what validate_timerange did with it
V3Validation(op, start_time, end_time, duration, clock) ==
  validate_timerange(dt_to_utc(start_time), dt_to_utc(end_time), duration,
                     V3Policy(op).max_age, V3Policy(op).max_interval, clock)

\* a faulty continuation: the validator's exception is swallowed
ValidationIgnored(validation) == TRUE

\* whether the call goes on after the validator: an exception it raised
\* leaves _forecast / _historical at once
ValidationPassed(validation) == validation.exc = None

\* the params ClimaCellV3._forecast builds
V3ForecastParams(op, fields, start_time, duration, clock) ==
  LET filtered == process_v3_fields(fields, V3Endpoint(op))
  IN  IF start_time.some
      THEN Returned([fields |-> filtered.ret,
                     start_time |-> isoformat(start_time),
                     end_time |-> isoformat(DtPlus(start_time, duration))],
                    filtered.log)
      ELSE Returned([fields |-> filtered.ret,
                     end_time |-> isoformat(DtPlus(Naive(clock), duration))],
                    filtered.log)

\* the params ClimaCellV3._historical builds
V3HistoricalParams(op, fields, end_time, duration, clock) ==
  LET filtered == process_v3_fields(fields, V3Endpoint(op))
  IN  IF end_time.some
      THEN Returned([fields |-> filtered.ret,
                     start_time |-> isoformat(DtPlus(end_time, 0 - duration)),
                     end_time |-> isoformat(end_time)],
                    filtered.log)
      ELSE Returned([fields |-> filtered.ret,
                     start_time |-> isoformat(DtPlus(Naive(clock), 0 - duration)),
                     end_time |-> NowText],
                    filtered.log)

\* The session _call_api sends a request on: the one the constructor was given,
\* or the next one the call opens itself (async with ClientSession())
SessionUsed(self, f) ==
  IF self.session THEN [supplied |-> TRUE, id |-> 0]
  ELSE [supplied |-> FALSE, id |-> f.opened + 1]

\* a faulty exit from _call_api: whichever session was used is closed
LeaveCallApiClosesAny(f) ==
  [f EXCEPT !.session = "closed", !.closed = @ + 1]

\* the frame when _call_api is entered and when it is left, by return or by an
\* exception: a session of its own is opened and closed, a supplied one is not
EnterCallApi(self, f) ==
  IF self.session THEN [f EXCEPT !.session = "supplied"]
  ELSE [f EXCEPT !.session = "open", !.opened = @ + 1]

LeaveCallApi(f) ==
  IF f.session = "open" THEN [f EXCEPT !.session = "closed", !.closed = @ + 1]
  ELSE f

\* the request ClimaCellV3._call_api sends: params over the client's own
V3Request(self, f, relative_endpoint, params) ==
  [method |-> "GET", endpoint |-> relative_endpoint, headers |-> self.headers,
   base |-> self.params, params |-> params, session |-> SessionUsed(self, f)]

\* the request ClimaCellV4._call_api sends: params over the client's own
V4Request(self, f, params) ==
  [method |-> "POST", endpoint |-> "timelines", headers |-> self.headers,
   base |-> self.params, params |-> params, session |-> SessionUsed(self, f)]

NowcastTimesteps == {1, 5, 15, 30}

\* the timedelta each public forecast method of ClimaCellV4 passes to _forecast
V4ForecastOps == {"forecast_nowcast", "forecast_hourly", "forecast_daily"}

V4Timestep(op, timestep) ==
  CASE op = "forecast_nowcast" -> timedelta([unit |-> "minutes", n |-> timestep])
    [] op = "forecast_hourly" -> timedelta([unit |-> "hours", n |-> 1])
    [] op = "forecast_daily" -> timedelta([unit |-> "days", n |-> 1])

\* a faulty expansion: a single declared measurement is suffixed too
FieldMeasurementsSuffixesOne(field) ==
  LET measurements == GetFieldsV4(field).measurements
  IN  IF Len(measurements) < 1
      THEN <<field>>
      ELSE [i \in DOMAIN measurements |-> field \o measurements[i]]

\* the entries convert_fields_to_measurements puts in field_list for one field
FieldMeasurements(field) ==
  LET measurements == GetFieldsV4(field).measurements
  IN  IF Len(measurements) < 2
      THEN <<field>>
      ELSE [i \in DOMAIN measurements |-> field \o measurements[i]]

\* ClimaCellV4.convert_fields_to_measurements
RECURSIVE convert_fields_to_measurements(_)
convert_fields_to_measurements(fields) ==
  IF Len(fields) = 0 THEN <<>>
  ELSE FieldMeasurements(Head(fields)) \o convert_fields_to_measurements(Tail(fields))

\* the timestep text ClimaCellV4._forecast puts in the body, None when the
\* timestep is none of the six
V4TimestepText(timestep) ==
  CASE timestep = 1440 -> "1d"
    [] timestep = 60 -> "1h"
    [] timestep \in {30, 15, 5, 1} -> ToString(timestep) \o "m"
    [] OTHER -> None

\* the params dict of ClimaCellV4._forecast: fields and timestep always, startTime
\* when a start_time was passed, endTime when a duration was
V4Params(fields, timestep, start_time, has_start, end_time, has_end) ==
  CASE has_start /\ has_end ->
         [fields |-> fields, timestep |-> timestep,
          startTime |-> isoformat(start_time), endTime |-> isoformat(end_time)]
    [] has_start /\ ~has_end ->
         [fields |-> fields, timestep |-> timestep, startTime |-> isoformat(start_time)]
    [] ~has_start /\ has_end ->
         [fields |-> fields, timestep |-> timestep, endTime |-> isoformat(end_time)]
    [] OTHER -> [fields |-> fields, timestep |-> timestep]

\* ClimaCellV4._forecast up to the call of _call_api: the params it builds, or
\* the exception it raises
V4ForecastParams(timestep, fields, start_time, has_duration, duration, clock) ==
  LET filtered == process_v4_fields(fields, timestep)
      begin == IF start_time.some THEN start_time ELSE Aware(clock, 0)
  IN  IF filtered.exc # None THEN filtered
      ELSE IF V4TimestepText(timestep) = None THEN Raised("InvalidTimestep", filtered.log)
      ELSE Returned(V4Params(convert_fields_to_measurements(filtered.ret),
                             <<V4TimestepText(timestep)>>,
                             start_time, start_time.some,
                             DtPlus(begin, duration), has_duration /\ duration # 0),
                    filtered.log)

\* a faulty forecast_nowcast: the test of the minute timestep is missing
V4ForecastUnguarded(op, fields, start_time, has_duration, duration, timestep, clock) ==
  V4ForecastParams(V4Timestep(op, timestep), fields, start_time,
                   has_duration, duration, clock)

\* ClimaCellV4.forecast_nowcast / forecast_hourly / forecast_daily
V4Forecast(op, fields, start_time, has_duration, duration, timestep, clock) ==
  IF op = "forecast_nowcast" /\ timestep \notin NowcastTimesteps
  THEN Raised("InvalidTimestep", <<>>)
  ELSE V4ForecastParams(V4Timestep(op, timestep), fields, start_time,
                        has_duration, duration, clock)

\* What the transport does with a request: it answers with a status and a body
\* (JSON, a body aiohttp refuses for its content type, or malformed JSON), or the
\* connection fails.
Statuses == {200, 201, 204, 304, 400, 401, 403, 404, 429, 500, 503}
Bodies == {"json", "wrong_content_type", "malformed_json"}

Responses ==
  {[kind |-> "response", status |-> s, body |-> b] : s \in Statuses, b \in Bodies}
  \cup {[kind |-> "connection_error", status |-> 0, body |-> None]}

\* resp.json(): the payload, or the exception aiohttp raises
ParseJson(response) ==
  CASE response.body = "json" -> Returned("payload", <<>>)
    [] response.body = "wrong_content_type" -> Raised("ContentTypeError", <<>>)
    [] response.body = "malformed_json" -> Raised("JSONDecodeError", <<>>)

\* the exception a status is turned into
StatusException(status) ==
  IF status = 400 THEN "MalformedRequestException"
  ELSE IF status \in {401, 403} THEN "InvalidAPIKeyException"
  ELSE IF status = 429 THEN "RateLimitedException"
  ELSE "UnknownException"

\* whether ClimaCellV4._call_api calls resp.json(): on every response
V4ReadsBody(response) == response.kind = "response"

\* a faulty _call_api that gives an empty payload when the connection fails
V4CallApiHidesConnectionError(response) ==
  IF response.kind = "connection_error" THEN Returned("payload", <<>>)
  ELSE LET resp_json == ParseJson(response)
       IN  IF resp_json.exc # None THEN resp_json
           ELSE IF response.status = 200 THEN resp_json
           ELSE Raised(StatusException(response.status), <<>>)

\* ClimaCellV4._call_api from the transport's answer on
V4CallApi(response) ==
  IF response.kind = "connection_error" THEN Raised("CantConnectException", <<>>)
  ELSE LET resp_json == ParseJson(response)
       IN  IF resp_json.exc # None THEN resp_json
           ELSE IF response.status = 200 THEN resp_json
           ELSE Raised(StatusException(response.status), <<>>)

\* raise_for_status=True: aiohttp raises ClientResponseError for a status >= 400
\* before the body is read
V3ReadsBody(response) == response.kind = "response" /\ response.status < 400

\* ClimaCellV3._call_api from the transport's answer on; ContentTypeError is a
\* ClientResponseError, so the handler turns it into an exception by its status
V3CallApi(response) ==
  IF response.kind = "connection_error" THEN Raised("CantConnectException", <<>>)
  ELSE IF response.status >= 400 THEN Raised(StatusException(response.status), <<>>)
  ELSE LET resp_json == ParseJson(response)
       IN  IF resp_json.exc = "ContentTypeError"
           THEN Raised(StatusException(response.status), <<>>)
           ELSE resp_json

---------------------------------------------------------------------------
(* Calls of the clients' public methods *)

\* requested field lists: none, one applicable field, one field the catalog
\* has for other targets only, and a mix with a name outside the catalog
ClientV3Fields ==
  { <<>>, <<"temp">>, <<"fire_index">>, <<"no_such_field", "temp", "fire_index">> }

ClientV4Fields ==
  { <<>>, <<"temperature">>, <<"fireIndex">>,
    <<"no_such_field", "temperature", "hailBinary">> }

V3Base(op, fields) ==
  [NoCall EXCEPT !.client = "v3", !.op = op, !.fields = fields, !.self = DefaultV3]

V3Calls ==
  {V3Base("realtime", f) : f \in ClientV3Fields}
  \cup UNION { BareCalls(V3Base(op, f), V3Policy(op))
               \cup StartCalls(V3Base(op, f), V3Policy(op)) :
               op \in V3ForecastOps, f \in ClientV3Fields }
  \cup UNION { BareCalls(V3Base(op, f), V3Policy(op))
               \cup EndCalls(V3Base(op, f), V3Policy(op)) :
               op \in V3HistoricalOps, f \in ClientV3Fields }

\* start times and durations of the modern forecast calls
V4StartTimes == {NoneDt} \cup UNION {Representations(m) : m \in Near(0) \cup {-60, 60}}
V4Durations == {0, 60}
V4NowcastArgs == NowcastTimesteps \cup {0, 2, -5, 60}

V4Base(op, fields, timestep) ==
  [NoCall EXCEPT !.client = "v4", !.op = op, !.fields = fields, !.timestep = timestep,
                 !.self = DefaultV4]

\* a forecast call with each start time and each duration, None included
V4TimedCalls(base) ==
  {[base EXCEPT !.start_time = s, !.has_duration = FALSE] : s \in V4StartTimes}
  \cup {[base EXCEPT !.start_time = s, !.duration = d] :
          s \in V4StartTimes, d \in V4Durations}

V4Calls ==
  {V4Base("realtime", f, 5) : f \in ClientV4Fields}
  \cup UNION { V4TimedCalls(V4Base(op, f, 5)) :
               op \in {"forecast_hourly", "forecast_daily"}, f \in ClientV4Fields }
  \cup UNION { V4TimedCalls(V4Base("forecast_nowcast", f, n)) :
               n \in V4NowcastArgs, f \in ClientV4Fields }

\* direct calls of the modern filter with the clients' field lists
SmallFilterV4Calls ==
  { [NoCall EXCEPT !.op = "process_v4_fields", !.fields = f, !.target = t] :
      f \in ClientV4Fields, t \in V4Timesteps }

\* realtime_and_all_forecasts with each realtime list, two forecast lists and
\* a nowcast_timestep inside and outside (1, 5, 15, 30)
V4AllCalls ==
  { [V4Base("realtime_and_all_forecasts", f, n) EXCEPT !.forecast_fields = g] :
      f \in ClientV4Fields,
      g \in {<<"temperature">>, <<"no_such_field", "fireIndex">>},
      n \in {5, 60} }

\* clients constructed with a session of the caller's
SuppliedV3 == Construct("v3", FALSE, [NoArgs EXCEPT !.session = TRUE]).ret
SuppliedV4 == Construct("v4", FALSE, [NoArgs EXCEPT !.session = TRUE]).ret

\* the calls that pass no start or end time and the mixed field list
Bare(k) == ~k.start_time.some /\ ~k.end_time.some /\ Len(k.fields) = 3

V3SessionCalls == {[k EXCEPT !.self = SuppliedV3] : k \in {c \in V3Calls : Bare(c)}}
V4SessionCalls ==
  {[k EXCEPT !.self = SuppliedV4] : k \in {c \in V4Calls \cup V4AllCalls : Bare(c)}}

\* the same calls on ClimaCellV3Sync and ClimaCellV4Sync
V3SyncCalls == {[k EXCEPT !.sync = TRUE] : k \in {c \in V3Calls : Bare(c)}}
V4SyncCalls ==
  {[k EXCEPT !.sync = TRUE] : k \in {c \in V4Calls \cup V4AllCalls : Bare(c)}}

\* a call of a Sync method: async_to_sync has handed the coroutine to
\* asyncio.run, whose event loop is running
InitSync(calls) ==
  /\ pc = "called"
  /\ call \in calls
  /\ frame = [NoFrame EXCEPT !.loop = "running"]
  /\ now = 0
  /\ requests = <<>>
  /\ log = <<>>
  /\ result = NoResult

IsV3(ops) == call.client = "v3" /\ call.op \in ops
IsV4(ops) == call.client = "v4" /\ call.op \in ops

\* time passes between the statements of a call that read the clock
ClockTick ==
  /\ \/ pc \in {"called", "validated"}
     \/ pc = "sent" /\ call.op = "realtime_and_all_forecasts" /\ Len(requests) = 1
  /\ call.client # None
  /\ now < MaxTick
  /\ now' = now + 1
  /\ UNCHANGED <<pc, call, frame, requests, log, result>>

\* ClimaCellV3._forecast / _historical: dt_to_utc and validate_timerange
V3Validate ==
  /\ pc = "called"
  /\ IsV3(V3ForecastOps \cup V3HistoricalOps)
  /\ LET validation == V3Validation(call.op, call.start_time, call.end_time,
                                    call.duration, now)
     IN  /\ frame' = [frame EXCEPT !.now = now,
                                   !.start_time = dt_to_utc(call.start_time),
                                   !.end_time = dt_to_utc(call.end_time),
                                   !.validation = validation]
         /\ IF ValidationPassed(validation)
            THEN pc' = "validated" /\ UNCHANGED result
            ELSE pc' = "done" /\ result' = validation
  /\ UNCHANGED <<call, now, requests, log>>

\* ClimaCellV3._forecast / _historical after the validator: the params are
\* built and _call_api sends the request
V3Send ==
  /\ pc = "validated"
  /\ IsV3(V3ForecastOps \cup V3HistoricalOps)
  /\ LET built == IF call.op \in V3ForecastOps
                  THEN V3ForecastParams(call.op, call.fields, frame.start_time,
                                        call.duration, now)
                  ELSE V3HistoricalParams(call.op, call.fields, frame.end_time,
                                          call.duration, now)
     IN  /\ requests' = Append(requests, V3Request(call.self, frame,
                                                   V3Endpoint(call.op), built.ret))
         /\ log' = log \o built.log
  /\ frame' = EnterCallApi(call.self, frame)
  /\ pc' = "sent"
  /\ UNCHANGED <<call, now, result>>

\* ClimaCellV3.realtime
V3Realtime ==
  /\ pc = "called"
  /\ IsV3({"realtime"})
  /\ LET filtered == process_v3_fields(call.fields, REALTIME)
     IN  /\ requests' = Append(requests, V3Request(call.self, frame, REALTIME,
                                                   [fields |-> filtered.ret]))
         /\ log' = log \o filtered.log
  /\ frame' = EnterCallApi(call.self, frame)
  /\ pc' = "sent"
  /\ UNCHANGED <<call, now, result>>

\* ClimaCellV4.realtime
V4Realtime ==
  /\ pc = "called"
  /\ IsV4({"realtime"})
  /\ LET filtered == process_v4_fields(call.fields, 0)
     IN  /\ requests' = Append(requests,
                               V4Request(call.self, frame,
                                         [fields |-> filtered.ret,
                                          timesteps |-> <<"current">>]))
         /\ log' = log \o filtered.log
  /\ frame' = EnterCallApi(call.self, frame)
  /\ pc' = "sent"
  /\ UNCHANGED <<call, now, result>>

\* ClimaCellV4.forecast_nowcast / forecast_hourly / forecast_daily
V4ForecastCall ==
  /\ pc = "called"
  /\ IsV4(V4ForecastOps)
  /\ LET built == V4Forecast(call.op, call.fields, call.start_time,
                             call.has_duration, call.duration, call.timestep, now)
     IN  /\ log' = log \o built.log
         /\ IF built.exc # None
            THEN /\ pc' = "done"
                 /\ result' = built
                 /\ frame' = [frame EXCEPT !.now = now]
                 /\ UNCHANGED requests
            ELSE /\ pc' = "sent"
                 /\ requests' = Append(requests, V4Request(call.self, frame, built.ret))
                 /\ frame' = EnterCallApi(call.self, [frame EXCEPT !.now = now])
                 /\ UNCHANGED result
  /\ UNCHANGED <<call, now>>

\* _call_api from the transport's answer on, in a method that makes one request
Respond ==
  /\ pc = "sent"
  /\ call.op # "realtime_and_all_forecasts"
  /\ \E response \in Responses :
       /\ result' = IF call.client = "v3" THEN V3CallApi(response)
                    ELSE V4CallApi(response)
       /\ frame' = LeaveCallApi(
                     [frame EXCEPT
                        !.response = response,
                        !.body_read = IF call.client = "v3" THEN V3ReadsBody(response)
                                      ELSE V4ReadsBody(response)])
  /\ pc' = "done"
  /\ UNCHANGED <<call, now, requests, log>>

\* the dict realtime_and_all_forecasts returns
RealtimeAndAllResult == Returned("ret_data", <<>>)

\* the two params dicts of realtime_and_all_forecasts
V4AllFirstParams(realtime_fields) ==
  [timesteps |-> <<"current">>, fields |-> realtime_fields]

V4AllSecondParams(forecast_fields, nowcast_timestep, clock) ==
  [timesteps |-> <<ToString(nowcast_timestep) \o "m", "1h", "1d">>,
   fields |-> forecast_fields, startTime |-> isoformat(Aware(clock, 0))]

\* ClimaCellV4.realtime_and_all_forecasts up to its first await
V4RealtimeAndAll ==
  /\ pc = "called"
  /\ IsV4({"realtime_and_all_forecasts"})
  /\ requests' = Append(requests,
                        V4Request(call.self, frame, V4AllFirstParams(call.fields)))
  /\ frame' = EnterCallApi(call.self, [frame EXCEPT !.now = now])
  /\ pc' = "sent"
  /\ UNCHANGED <<call, now, log, result>>

\* realtime_and_all_forecasts from the answer to its first request on: the
\* exception of _call_api leaves it, a payload makes it send the second request
RespondFirst ==
  /\ pc = "sent"
  /\ IsV4({"realtime_and_all_forecasts"})
  /\ Len(requests) = 1
  /\ \E response \in Responses :
       LET outcome == V4CallApi(response)
           left == LeaveCallApi([frame EXCEPT !.first = response,
                                              !.body_read = V4ReadsBody(response)])
       IN  IF outcome.exc # None
           THEN /\ result' = outcome
                /\ frame' = left
                /\ pc' = "done"
                /\ UNCHANGED requests
           ELSE /\ requests' =
                     Append(requests,
                            V4Request(call.self, left,
                                      V4AllSecondParams(call.forecast_fields,
                                                        call.timestep, now)))
                /\ frame' = EnterCallApi(call.self, [left EXCEPT !.now = now])
                /\ pc' = "sent"
                /\ UNCHANGED result
  /\ UNCHANGED <<call, now, log>>

\* realtime_and_all_forecasts from the answer to its second request on
RespondSecond ==
  /\ pc = "sent"
  /\ IsV4({"realtime_and_all_forecasts"})
  /\ Len(requests) = 2
  /\ \E response \in Responses :
       LET outcome == V4CallApi(response)
       IN  /\ result' = IF outcome.exc # None THEN outcome ELSE RealtimeAndAllResult
           /\ frame' = LeaveCallApi([frame EXCEPT !.response = response,
                                                  !.body_read = V4ReadsBody(response)])
  /\ pc' = "done"
  /\ UNCHANGED <<call, now, requests, log>>

\* a faulty asyncio.run: the coroutine's exception is not passed on
asyncio_run_swallows(outcome) ==
  IF outcome.exc # None THEN Returned(None, <<>>) ELSE outcome

\* asyncio.run(coroutine): what the coroutine returned, or the exception it
\* raised
asyncio_run(outcome) == outcome

\* the wrapper of async_to_sync returns once the coroutine has finished
SyncReturn ==
  /\ pc = "done"
  /\ call.sync
  /\ frame.loop = "running"
  /\ frame' = [frame EXCEPT !.loop = "closed", !.returned = asyncio_run(result)]
  /\ UNCHANGED <<pc, call, now, requests, log, result>>

Init ==
  \/ InitWith(V3Calls)
  \/ InitWith(V4Calls)
  \/ InitWith(SmallFilterV4Calls)
  \/ InitWith(V4AllCalls)
  \/ InitWith(V3SessionCalls)
  \/ InitWith(V4SessionCalls)
  \/ InitSync(V3SyncCalls)
  \/ InitSync(V4SyncCalls)

Next ==
  \/ V3Validate
  \/ V3Send
  \/ V3Realtime
  \/ V4Realtime
  \/ V4ForecastCall
  \/ V4RealtimeAndAll
  \/ FilterV4
  \/ Respond
  \/ RespondFirst
  \/ RespondSecond
  \/ SyncReturn
  \/ ClockTick

Spec == Init /\ [][Next]_vars


---------------------------------------------------------------------------
(* The filters followed by a second function *)

\* the characters of each key of FIELDS_V3, as iterating the str yields them
Characters(name) ==
  CASE name = "temp" -> <<"t", "e", "m", "p">>
    [] name = "feels_like" -> <<"f", "e", "e", "l", "s", "_", "l", "i", "k", "e">>
    [] name = "dewpoint" -> <<"d", "e", "w", "p", "o", "i", "n", "t">>
    [] name = "humidity" -> <<"h", "u", "m", "i", "d", "i", "t", "y">>
    [] name = "wind_speed" -> <<"w", "i", "n", "d", "_", "s", "p", "e", "e", "d">>
    [] name = "wind_direction" -> <<"w", "i", "n", "d", "_", "d", "i", "r", "e", "c", "t", "i", "o", "n">>
    [] name = "wind_gust" -> <<"w", "i", "n", "d", "_", "g", "u", "s", "t">>
    [] name = "baro_pressure" -> <<"b", "a", "r", "o", "_", "p", "r", "e", "s", "s", "u", "r", "e">>
    [] name = "precipitation" -> <<"p", "r", "e", "c", "i", "p", "i", "t", "a", "t", "i", "o", "n">>
    [] name = "precipitation_type" -> <<"p", "r", "e", "c", "i", "p", "i", "t", "a", "t", "i", "o", "n", "_", "t", "y", "p", "e">>
    [] name = "precipitation_probability" -> <<"p", "r", "e", "c", "i", "p", "i", "t", "a", "t", "i", "o", "n", "_", "p", "r", "o", "b", "a", "b", "i", "l", "i", "t", "y">>
    [] name = "precipitation_accumulation" -> <<"p", "r", "e", "c", "i", "p", "i", "t", "a", "t", "i", "o", "n", "_", "a", "c", "c", "u", "m", "u", "l", "a", "t", "i", "o", "n">>
    [] name = "sunrise" -> <<"s", "u", "n", "r", "i", "s", "e">>
    [] name = "sunset" -> <<"s", "u", "n", "s", "e", "t">>
    [] name = "visibility" -> <<"v", "i", "s", "i", "b", "i", "l", "i", "t", "y">>
    [] name = "cloud_cover" -> <<"c", "l", "o", "u", "d", "_", "c", "o", "v", "e", "r">>
    [] name = "cloud_base" -> <<"c", "l", "o", "u", "d", "_", "b", "a", "s", "e">>
    [] name = "cloud_ceiling" -> <<"c", "l", "o", "u", "d", "_", "c", "e", "i", "l", "i", "n", "g">>
    [] name = "surface_shortwave_radiation" -> <<"s", "u", "r", "f", "a", "c", "e", "_", "s", "h", "o", "r", "t", "w", "a", "v", "e", "_", "r", "a", "d", "i", "a", "t", "i", "o", "n">>
    [] name = "moon_phase" -> <<"m", "o", "o", "n", "_", "p", "h", "a", "s", "e">>
    [] name = "weather_code" -> <<"w", "e", "a", "t", "h", "e", "r", "_", "c", "o", "d", "e">>
    [] name = "weather_groups" -> <<"w", "e", "a", "t", "h", "e", "r", "_", "g", "r", "o", "u", "p", "s">>
    [] name = "pm25" -> <<"p", "m", "2", "5">>
    [] name = "pm10" -> <<"p", "m", "1", "0">>
    [] name = "o3" -> <<"o", "3">>
    [] name = "no2" -> <<"n", "o", "2">>
    [] name = "co" -> <<"c", "o">>
    [] name = "so2" -> <<"s", "o", "2">>
    [] name = "epa_aqi" -> <<"e", "p", "a", "_", "a", "q", "i">>
    [] name = "epa_primary_pollutant" -> <<"e", "p", "a", "_", "p", "r", "i", "m", "a", "r", "y", "_", "p", "o", "l", "l", "u", "t", "a", "n", "t">>
    [] name = "epa_health_concern" -> <<"e", "p", "a", "_", "h", "e", "a", "l", "t", "h", "_", "c", "o", "n", "c", "e", "r", "n">>
    [] name = "china_aqi" -> <<"c", "h", "i", "n", "a", "_", "a", "q", "i">>
    [] name = "china_primary_pollutant" -> <<"c", "h", "i", "n", "a", "_", "p", "r", "i", "m", "a", "r", "y", "_", "p", "o", "l", "l", "u", "t", "a", "n", "t">>
    [] name = "china_health_concern" -> <<"c", "h", "i", "n", "a", "_", "h", "e", "a", "l", "t", "h", "_", "c", "o", "n", "c", "e", "r", "n">>
    [] name = "pollen_tree" -> <<"p", "o", "l", "l", "e", "n", "_", "t", "r", "e", "e">>
    [] name = "pollen_weed" -> <<"p", "o", "l", "l", "e", "n", "_", "w", "e", "e", "d">>
    [] name = "pollen_grass" -> <<"p", "o", "l", "l", "e", "n", "_", "g", "r", "a", "s", "s">>
    [] name = "road_risk_score" -> <<"r", "o", "a", "d", "_", "r", "i", "s", "k", "_", "s", "c", "o", "r", "e">>
    [] name = "road_risk_confidence" -> <<"r", "o", "a", "d", "_", "r", "i", "s", "k", "_", "c", "o", "n", "f", "i", "d", "e", "n", "c", "e">>
    [] name = "road_risk_conditions" -> <<"r", "o", "a", "d", "_", "r", "i", "s", "k", "_", "c", "o", "n", "d", "i", "t", "i", "o", "n", "s">>
    [] name = "fire_index" -> <<"f", "i", "r", "e", "_", "i", "n", "d", "e", "x">>

\* iterating a str: one element per character, the separators included
RECURSIVE IterTokens(_)
IterTokens(tokens) ==
  IF Len(tokens) = 0 THEN <<>>
  ELSE (IF Head(tokens) = "," THEN <<",">> ELSE Characters(Head(tokens)))
       \o IterTokens(Tail(tokens))

IterStr(s) == IterTokens(s.tokens)

\* str.split(","): the texts between the separators; the empty str gives [""]
split(s) ==
  IF Len(s.tokens) = 0 THEN <<"">>
  ELSE [k \in 1..((Len(s.tokens) + 1) \div 2) |-> s.tokens[2 * k - 1]]

\* field lists of the calls that are followed by a second function
PipelineV3Calls ==
  { [NoCall EXCEPT !.op = "process_v3_fields", !.fields = f, !.target = e] :
      f \in SeqsUpTo(V3Pool, MaxLen - 1) \cup {<<k>> : k \in V3Keys},
      e \in V3Targets }

PipelineV4Calls ==
  { [NoCall EXCEPT !.op = "process_v4_fields", !.fields = f, !.target = t] :
      f \in SeqsUpTo(V4Pool, MaxLen - 1) \cup {<<k>> : k \in V4Keys},
      t \in V4Timesteps }

\* process_v3_fields applied to the str it returned
RefilterV3 ==
  /\ pc = "done"
  /\ call.op = "process_v3_fields"
  /\ LET second == process_v3_fields(IterStr(result.ret), call.target)
     IN  /\ frame' = [frame EXCEPT !.second = second]
         /\ log' = log \o second.log
  /\ pc' = "refiltered"
  /\ UNCHANGED <<call, now, requests, result>>

\* process_v3_fields applied to the names in the str it returned
RefilterV3Split ==
  /\ pc = "done"
  /\ call.op = "process_v3_fields"
  /\ LET second == process_v3_fields(split(result.ret), call.target)
     IN  /\ frame' = [frame EXCEPT !.second = second]
         /\ log' = log \o second.log
  /\ pc' = "refiltered_split"
  /\ UNCHANGED <<call, now, requests, result>>

\* process_v4_fields applied to the list it returned
RefilterV4 ==
  /\ pc = "done"
  /\ call.op = "process_v4_fields"
  /\ result.exc = None
  /\ LET second == process_v4_fields(result.ret, call.target)
     IN  /\ frame' = [frame EXCEPT !.second = second]
         /\ log' = log \o second.log
  /\ pc' = "refiltered"
  /\ UNCHANGED <<call, now, requests, result>>

\* convert_fields_to_measurements applied to the list process_v4_fields
\* returned, as ClimaCellV4._forecast does
Convert ==
  /\ pc = "done"
  /\ call.op = "process_v4_fields"
  /\ result.exc = None
  /\ frame' = [frame EXCEPT
                 !.second = Returned(convert_fields_to_measurements(result.ret), <<>>)]
  /\ pc' = "converted"
  /\ UNCHANGED <<call, now, requests, log, result>>

InitPipeline == InitWith(PipelineV3Calls) \/ InitWith(PipelineV4Calls)

NextPipeline ==
  \/ FilterV3
  \/ FilterV4
  \/ RefilterV3
  \/ RefilterV3Split
  \/ RefilterV4
  \/ Convert

SpecPipeline == InitPipeline /\ [][NextPipeline]_vars

---------------------------------------------------------------------------
(* Calls of the constructors *)

\* unit-system selectors: the four names in several spellings, and others
Selectors ==
  { "us", "US", "Us", "si", "SI", "Si", "imperial", "Imperial", "IMPERIAL",
    "metric", "Metric", "METRIC", "kelvin", "Kelvin", "uk", "" }

Latitudes ==
  { [type |-> "int", tenths |-> 400], [type |-> "float", tenths |-> 407],
    [type |-> "str", tenths |-> 407] }

Longitudes ==
  { [type |-> "int", tenths |-> -740], [type |-> "float", tenths |-> -739] }

ConstructorArgs ==
  { [NoArgs EXCEPT !.latitude = lat, !.longitude = lon, !.has_unit_system = TRUE,
                   !.unit_system = u, !.session = s] :
      lat \in Latitudes, lon \in Longitudes, u \in Selectors, s \in BOOLEAN }
  \cup { [NoArgs EXCEPT !.latitude = lat, !.longitude = lon, !.session = s] :
           lat \in Latitudes, lon \in Longitudes, s \in BOOLEAN }

\* the Sync classes take no session
ConstructorCalls ==
  { k \in { [NoCall EXCEPT !.client = c, !.op = "__init__", !.sync = y, !.args = a] :
              c \in {"v3", "v4"}, y \in BOOLEAN, a \in ConstructorArgs } :
      ~(k.sync /\ k.args.session) }

\* ClimaCellV3(...) or ClimaCellV3Sync(...)
ConstructV3 ==
  /\ pc = "called"
  /\ call.op = "__init__"
  /\ call.client = "v3"
  /\ result' = Construct("v3", call.sync, call.args)
  /\ pc' = "done"
  /\ UNCHANGED <<call, frame, now, requests, log>>

\* ClimaCellV4(...) or ClimaCellV4Sync(...)
ConstructV4 ==
  /\ pc = "called"
  /\ call.op = "__init__"
  /\ call.client = "v4"
  /\ result' = Construct("v4", call.sync, call.args)
  /\ pc' = "done"
  /\ UNCHANGED <<call, frame, now, requests, log>>

InitConstruct == InitWith(ConstructorCalls)
NextConstruct == ConstructV3 \/ ConstructV4
SpecConstruct == InitConstruct /\ [][NextConstruct]_vars

---------------------------------------------------------------------------
(* The catalogs' listings: ClimaCellV3.available_fields and
   ClimaCellV4.available_fields, each followed by the field filter applied to
   the whole catalog *)

\* the keys of a catalog in the order "for field in FIELDS_V3" gives them
CatalogV3 == [i \in DOMAIN FIELDS_V3 |-> FIELDS_V3[i].name]
CatalogV4 == [i \in DOMAIN FIELDS_V4 |-> FIELDS_V4[i].name]

\* ClimaCellV3.available_fields(endpoint)
available_fields_v3(endpoint) ==
  LET Offered(field) == InList(endpoint, GetFieldsV3(field))
  IN  Returned(SelectSeq(CatalogV3, Offered), <<>>)

\* the branch of ClimaCellV4.available_fields a timestep in minutes takes
AvailableBranch(timestep) ==
  IF timestep = timedelta([unit |-> "days", n |-> 1]) THEN "daily"
  ELSE IF timestep = timedelta([unit |-> "hours", n |-> 1]) THEN "hourly"
  ELSE IF timestep \in { timedelta([unit |-> "minutes", n |-> 30]),
                         timedelta([unit |-> "minutes", n |-> 15]),
                         timedelta([unit |-> "minutes", n |-> 5]),
                         timedelta([unit |-> "minutes", n |-> 1]) } THEN "minutes"
  ELSE IF timestep = 0 THEN "current"
  ELSE IF timestep < 0 THEN "historical"
  ELSE "invalid"

\* the test of a branch's comprehension on one field; the zero branch has its
\* own, which subscripts the field's dict with 0
Listed(field, branch) ==
  LET range == GetFieldsV4(field).timestep
  IN  CASE branch = "daily" -> range[2] = 360
        [] branch = "hourly" -> range[2] >= 108
        [] branch = "minutes" -> range[2] >= 6
        [] branch = "historical" -> range[1] < 0

\* FIELDS_V4[field][0]: the dict of a field has the keys "timestep",
\* "measurements" and "type" and no key 0, so the subscript raises KeyError
SubscriptZero(field) == RaisedMsg("KeyError", "0")

\* the comprehension of the zero branch: its test raises on the first field
\* it is evaluated for
ListedCurrent ==
  IF Len(CatalogV4) = 0 THEN Returned(<<>>, <<>>)
  ELSE SubscriptZero(CatalogV4[1])

\* ClimaCellV4.available_fields(timestep, types)
available_fields_v4(timestep, has_types, types) ==
  LET branch == AvailableBranch(timestep)
      InBranch(field) == Listed(field, branch)
      OfTypes(field) == InList(GetFieldsV4(field).type, types)
      fields == IF branch = "current" THEN ListedCurrent
                ELSE Returned(SelectSeq(CatalogV4, InBranch), <<>>)
  IN  IF branch = "invalid" THEN Raised("InvalidTimestep", <<>>)
      ELSE IF fields.exc # None THEN fields
      ELSE IF has_types /\ Len(types) > 0
           THEN Returned(SelectSeq(fields.ret, OfTypes), <<>>)
           ELSE fields

\* the types lists passed: None, and lists of catalog types and of a type the
\* catalog has not
TypePool == {TYPE_WEATHER, TYPE_FIRE, "no_such_type"}

AvailableV3Calls ==
  { [NoCall EXCEPT !.client = "v3", !.op = "available_fields", !.target = e] :
      e \in V3Targets }

AvailableV4Calls ==
  { [NoCall EXCEPT !.client = "v4", !.op = "available_fields", !.target = t,
                   !.has_types = TRUE, !.types = y] :
      t \in V4Timesteps, y \in SeqsUpTo(TypePool, MaxLen - 1) }
  \cup
  { [NoCall EXCEPT !.client = "v4", !.op = "available_fields", !.target = t] :
      t \in V4Timesteps }

\* a call of ClimaCellV3.available_fields(endpoint)
AvailableV3 ==
  /\ pc = "called"
  /\ call.client = "v3" /\ call.op = "available_fields"
  /\ result' = available_fields_v3(call.target)
  /\ pc' = "listed"
  /\ UNCHANGED <<call, frame, now, requests, log>>

\* a call of ClimaCellV4.available_fields(timestep, types)
AvailableV4 ==
  /\ pc = "called"
  /\ call.client = "v4" /\ call.op = "available_fields"
  /\ result' = available_fields_v4(call.target, call.has_types, call.types)
  /\ pc' = "listed"
  /\ UNCHANGED <<call, frame, now, requests, log>>

\* process_v3_fields(list(FIELDS_V3), endpoint) for the same endpoint
WholeCatalogV3 ==
  /\ pc = "listed"
  /\ call.client = "v3"
  /\ LET filtered == process_v3_fields(CatalogV3, call.target)
     IN  /\ frame' = [frame EXCEPT !.second = filtered]
         /\ log' = log \o filtered.log
  /\ pc' = "done"
  /\ UNCHANGED <<call, now, requests, result>>

\* process_v4_fields(list(FIELDS_V4), timestep) for the same timestep
WholeCatalogV4 ==
  /\ pc = "listed"
  /\ call.client = "v4"
  /\ LET filtered == process_v4_fields(CatalogV4, call.target)
     IN  /\ frame' = [frame EXCEPT !.second = filtered]
         /\ log' = log \o filtered.log
  /\ pc' = "done"
  /\ UNCHANGED <<call, now, requests, result>>

InitAvailable == InitWith(AvailableV3Calls) \/ InitWith(AvailableV4Calls)
NextAvailable == AvailableV3 \/ AvailableV4 \/ WholeCatalogV3 \/ WholeCatalogV4
SpecAvailable == InitAvailable /\ [][NextAvailable]_vars
---------------------------------------------------------------------------
(* Claims about the field filters *)

\* str.split(","): the names between the separators of a joined string
SplitTokens(s) == [k \in 1..((Len(s.tokens) + 1) \div 2) |-> s.tokens[2 * k - 1]]

\* list is exactly the entries of fields that satisfy Keep, in the order of fields
IsOrderedSelection(list, fields, Keep(_)) ==
  LET idx == {i \in DOMAIN fields : Keep(fields[i])}
  IN  /\ Len(list) = Cardinality(idx)
      /\ \A i \in idx : list[Cardinality({j \in idx : j <= i})] = fields[i]

\* C1: process_v3_fields keeps exactly the requested fields that are keys of
\* FIELDS_V3 and whose endpoint list contains the endpoint, in request order;
\* every other requested field is removed and nothing is added.
C1_LegacyFilterKeepsApplicable ==
  (pc = "done" /\ call.op = "process_v3_fields") =>
    LET Keep(f) == /\ f \in V3Keys
                   /\ call.target \in ToSet(GetFieldsV3(f))
    IN  /\ result.exc = None
        /\ result.ret.type = "str"
        /\ \A k \in DOMAIN result.ret.tokens :
             (k % 2 = 0) => result.ret.tokens[k] = ","
        /\ IsOrderedSelection(SplitTokens(result.ret), call.fields, Keep)

\* a request mixing an applicable field, an inapplicable catalog field and a
\* name outside the catalog has been filtered down to the applicable one
C1_Witness ==
  /\ pc = "done"
  /\ call.op = "process_v3_fields"
  /\ call.fields = <<"no_such_field", "temp", "fire_index">>
  /\ call.target = FORECAST_DAILY
  /\ SplitTokens(result.ret) = <<"temp">>

\* the condition the claim gives for keeping a catalog field with range
\* [min, max] at a timestep (in minutes)
C2_Keeps(min, max, timestep) ==
  \/ timestep = 1440 /\ max = 360
  \/ timestep = 60 /\ max >= 108
  \/ timestep \in {30, 15, 5, 1} /\ max >= 6
  \/ timestep = 0 /\ min <= 0 /\ max >= 0
  \/ timestep < 0 /\ min < 0

\* C2: for every recognised timestep process_v4_fields keeps a catalog field
\* with range [min,max] iff the timestep's condition on the range holds;
\* precipitationProbability is kept for hourly and for zero, fireIndex is
\* removed for daily and kept for a negative timestep.
C2_ModernFilterKeepsByRange ==
  (/\ pc = "done"
   /\ call.op = "process_v4_fields"
   /\ (call.target \in RecognisedTimesteps \/ call.target <= 0)) =>
    LET Keep(f) == /\ f \in V4Keys
                   /\ C2_Keeps(GetFieldsV4(f).timestep[1],
                               GetFieldsV4(f).timestep[2], call.target)
        kept == ToSet(result.ret)
        asked == ToSet(call.fields)
    IN  /\ result.exc = None
        /\ IsOrderedSelection(result.ret, call.fields, Keep)
        /\ ("precipitationProbability" \in asked /\ call.target \in {60, 0})
             => "precipitationProbability" \in kept
        /\ ("fireIndex" \in asked /\ call.target = 1440) => "fireIndex" \notin kept
        /\ ("fireIndex" \in asked /\ call.target < 0) => "fireIndex" \in kept

\* fireIndex and precipitationProbability requested for the daily timestep:
\* only precipitationProbability is left
C2_Witness ==
  /\ pc = "done"
  /\ call.op = "process_v4_fields"
  /\ call.fields = <<"fireIndex", "precipitationProbability">>
  /\ call.target = 1440
  /\ result.ret = <<"precipitationProbability">>


---------------------------------------------------------------------------
(* Claims about the time-range validator *)

ValidatorDone == pc = "done" /\ call.op = "validate_timerange"

ForecastStyle == call.start_time.some /\ ~call.end_time.some
HistoricalStyle == call.end_time.some /\ ~call.start_time.some

\* C3: a forecast-style call without max_interval fails if start_time is
\* before now, fails if start_time - now + duration > max_age, and otherwise
\* succeeds (start_time = now and start_time - now + duration = max_age are
\* accepted).
C3_ForecastWindowRule ==
  (ValidatorDone /\ ForecastStyle /\ call.max_interval = NoneDict) =>
    LET ahead == DtMinute(call.start_time) - frame.now
        age == timedelta(call.max_age)
    IN  /\ (ahead < 0) => result.exc # None
        /\ (ahead + call.duration > age) => result.exc # None
        /\ (ahead >= 0 /\ ahead + call.duration <= age) => result.exc = None

\* C3 for start times that carry no timezone
C3_ForecastWindowRuleNaive ==
  (~call.start_time.aware) => C3_ForecastWindowRule

\* C4: a historical-style call fails whenever end_time is after now, and
\* fails whenever max_interval is defined and duration > max_interval, even
\* when duration <= max_age.
C4_HistoricalRejections ==
  (ValidatorDone /\ HistoricalStyle) =>
    LET behind == frame.now - DtMinute(call.end_time)
        over == /\ call.max_interval # NoneDict
                /\ call.duration > timedelta(call.max_interval)
    IN  /\ (behind < 0) => result.exc # None
        /\ (behind < 0 /\ ~over /\ ~call.end_time.aware) =>
             (result.exc = "ValueError" /\ result.msg = MSG_END_FUTURE)
        /\ over => (result.exc = "ValueError" /\ result.msg = MSG_INTERVAL)

\* historical-station data requested with end_time one hour after now
C4_Witness ==
  /\ ValidatorDone
  /\ HistoricalStyle
  /\ call.max_age = HISTORICAL_STATION_MAX_AGE
  /\ call.max_interval = HISTORICAL_STATION_MAX_INTERVAL
  /\ call.end_time = Naive(frame.now + 60)
  /\ call.duration = 1440
  /\ result.exc = "ValueError"
  /\ result.msg = MSG_END_FUTURE

\* C5: an accepted window lies within the max-age horizon of now (forecast:
\* start_time + duration <= now + max_age; historical: end_time - duration >=
\* now - max_age) and spans at most max_interval; and a historical window
\* with end_time <= now inside the horizon is not rejected for its age.
C5_AcceptedWindowWithinHorizon ==
  ValidatorDone =>
    LET age == timedelta(call.max_age)
        d == call.duration
    IN  /\ (result.exc = None /\ ForecastStyle) =>
             DtMinute(call.start_time) + d <= frame.now + age
        /\ (result.exc = None /\ HistoricalStyle) =>
             DtMinute(call.end_time) - d >= frame.now - age
        /\ (result.exc = None /\ call.max_interval # NoneDict) =>
             d <= timedelta(call.max_interval)
        /\ (/\ HistoricalStyle
            /\ ~call.end_time.aware
            /\ call.end_time.t <= frame.now
            /\ call.end_time.t - d >= frame.now - age) =>
             result.msg # MSG_END_AGE

---------------------------------------------------------------------------
(* Claims about the clients *)

V3TimedOps == V3ForecastOps \cup V3HistoricalOps

\* the caller's start_time (forecast) or end_time (historical)
GivenTime == IF call.op \in V3HistoricalOps THEN call.end_time ELSE call.start_time

\* the validator's outcome had the caller passed `time` in place of GivenTime
OutcomeFor(time) ==
  IF call.op \in V3HistoricalOps
  THEN V3Validation(call.op, NoneDt, time, call.duration, frame.now)
  ELSE V3Validation(call.op, time, NoneDt, call.duration, frame.now)

\* C6: in every forecast or historical operation a time carrying a timezone
\* offset is normalised to UTC before it is compared with now, and the same
\* instant expressed in UTC validates exactly as it does with a non-zero offset.
C6_SameInstantSameOutcome ==
  (/\ IsV3(V3TimedOps)
   /\ frame.validation.exc # "pending"
   /\ GivenTime.some
   /\ GivenTime.aware
   /\ GivenTime.off # 0) =>
    LET minute == UtcMinute(GivenTime)
        normalised == IF call.op \in V3HistoricalOps THEN frame.end_time
                      ELSE frame.start_time
    IN  /\ normalised = Aware(minute, 0)
        /\ \A utc \in {Naive(minute), Aware(minute, 0)} :
             OutcomeFor(utc) = frame.validation

ResponseDone == pc = "done" /\ frame.response.kind # None

\* the outcome the claims give for a status
OutcomeOfStatus(status) ==
  CASE status = 200 -> None
    [] status = 400 -> "MalformedRequestException"
    [] status \in {401, 403} -> "InvalidAPIKeyException"
    [] status = 429 -> "RateLimitedException"
    [] OTHER -> "UnknownException"

\* C8: in both clients the outcome of an HTTP call is determined by its status
\* (200 success with the payload, 400 malformed, 401/403 credentials, 429 rate
\* limited, any other status unknown), and a connection failure is the
\* cannot-connect failure.
C8_OutcomeDeterminedByStatus ==
  ResponseDone =>
    /\ (frame.response.kind = "connection_error") =>
         result.exc = "CantConnectException"
    /\ (frame.response.kind = "response" /\ frame.response.status # 200) =>
         result.exc = OutcomeOfStatus(frame.response.status)
    /\ (/\ frame.response.kind = "response"
        /\ frame.response.status = 200
        /\ frame.response.body = "json") =>
         (result.exc = None /\ result.ret = "payload")

\* C9: the failure kind depends on the status and not on the payload: 429 is
\* the rate-limited failure whatever the body, also one that is not JSON, and
\* a failed connection is the cannot-connect failure with no body parsed.
C9_FailureKindIgnoresPayload ==
  ResponseDone =>
    /\ (frame.response.kind = "response" /\ frame.response.status = 429) =>
         result.exc = "RateLimitedException"
    /\ (frame.response.kind = "response" /\ frame.response.status >= 400) =>
         result.exc = OutcomeOfStatus(frame.response.status)
    /\ (frame.response.kind = "connection_error") =>
         (result.exc = "CantConnectException" /\ ~frame.body_read)

\* C10: a positive timestep that is none of the six makes process_v4_fields
\* raise InvalidTimestep; forecast_nowcast with a minute timestep outside
\* {1, 5, 15, 30} raises InvalidTimestep; in each case no request was sent.
C10_InvalidTimestepBeforeDispatch ==
  /\ (/\ pc = "done"
      /\ call.op = "process_v4_fields"
      /\ call.target > 0
      /\ call.target \notin {1440, 60, 30, 15, 5, 1}) =>
       (result.exc = "InvalidTimestep" /\ requests = <<>>)
  /\ (/\ IsV4({"forecast_nowcast"})
      /\ call.timestep \notin {1, 5, 15, 30}
      /\ pc # "called") =>
       (pc = "done" /\ result.exc = "InvalidTimestep" /\ requests = <<>>)
  /\ (result.exc = "InvalidTimestep") => requests = <<>>

\* forecast_nowcast(timestep=60), an hour given in minutes, was refused
C10_Witness ==
  /\ IsV4({"forecast_nowcast"})
  /\ call.timestep = 60
  /\ pc = "done"
  /\ result.exc = "InvalidTimestep"
  /\ requests = <<>>

---------------------------------------------------------------------------
(* Claims about the filters' diagnostics *)

FilterDone == pc = "done" /\ call.op \in {"process_v3_fields", "process_v4_fields"}

\* the requested fields that are not keys of the filter's catalog
AbsentFromCatalog ==
  IF call.op = "process_v3_fields" THEN ToSet(call.fields) \ V3Keys
  ELSE ToSet(call.fields) \ V4Keys

\* the requested catalog fields the catalog does not offer for the target
NotApplicable ==
  IF call.op = "process_v3_fields"
  THEN {f \in ToSet(call.fields) \cap V3Keys :
          call.target \notin ToSet(GetFieldsV3(f))}
  ELSE {f \in ToSet(call.fields) \cap V4Keys :
          ~C2_Keeps(GetFieldsV4(f).timestep[1], GetFieldsV4(f).timestep[2],
                    call.target)}

\* the positions in the log of the diagnostics with this message
Diagnostics(message) == {i \in DOMAIN log : log[i].msg = message}

\* the diagnostics with this message are: one naming exactly removed when
\* removed is not empty, none when it is
ReportsExactly(message, removed) ==
  IF removed = {}
  THEN Diagnostics(message) = {}
  ELSE /\ Cardinality(Diagnostics(message)) = 1
       /\ \A i \in Diagnostics(message) : log[i].fields = removed

\* C12: in both filters a stage that removes fields reports one diagnostic
\* whose field set is exactly what it removed (stage 1: requested fields absent
\* from the catalog; stage 2: catalog fields not applicable to the target), and
\* a stage that removes nothing reports nothing.
C12_DiagnosticsNameRemovedFields ==
  FilterDone =>
    /\ ReportsExactly("Removed invalid fields", AbsentFromCatalog)
    /\ (result.exc = None) =>
         ReportsExactly("Remove fields not available", NotApplicable)
    /\ (result.exc # None) => Diagnostics("Remove fields not available") = {}
    /\ \A i \in DOMAIN log :
         log[i].msg \in {"Removed invalid fields", "Remove fields not available"}
    /\ \A i \in Diagnostics("Removed invalid fields") :
         \A j \in Diagnostics("Remove fields not available") : i < j

\* both stages of the legacy filter removed a field and each reported its own
C12_Witness ==
  /\ FilterDone
  /\ call.op = "process_v3_fields"
  /\ call.fields = <<"no_such_field", "temp", "fire_index">>
  /\ call.target = FORECAST_DAILY
  /\ Len(log) = 2
  /\ log[1].fields = {"no_such_field"}
  /\ log[2].fields = {"fire_index"}

---------------------------------------------------------------------------
(* Claims about the filters followed by a second function *)

\* the number of entries the claim gives a field in the expanded list
EntriesOf(field) ==
  IF Len(GetFieldsV4(field).measurements) >= 2
  THEN Len(GetFieldsV4(field).measurements)
  ELSE 1

\* expanded is fields with every field of two or more declared measurements
\* replaced, in place, by field + measurement for each declared measurement
\* in catalog order, and every other field left as it is
IsExpansion(expanded, fields) ==
  LET offset[i \in 0..Len(fields)] ==
        IF i = 0 THEN 0 ELSE offset[i - 1] + EntriesOf(fields[i])
  IN  /\ Len(expanded) = offset[Len(fields)]
      /\ \A i \in DOMAIN fields :
           LET measurements == GetFieldsV4(fields[i]).measurements
           IN  IF Len(measurements) >= 2
               THEN \A k \in DOMAIN measurements :
                      expanded[offset[i - 1] + k] = fields[i] \o measurements[k]
               ELSE expanded[offset[i - 1] + 1] = fields[i]

\* C16: for every list that passed process_v4_fields,
\* convert_fields_to_measurements replaces each field declaring two or more
\* measurements by field + suffix for each, in catalog order, passes a field
\* with zero or one declared measurement through unsuffixed, and keeps the
\* order of the fields.
C16_MeasurementExpansion ==
  (pc = "converted") =>
    /\ frame.second.exc = None
    /\ IsExpansion(frame.second.ret, result.ret)

\* a field with two measurements followed by a field with one
C16_Witness ==
  /\ pc = "converted"
  /\ call.target = 1440
  /\ result.ret = <<"weatherCode", "windDirection">>
  /\ frame.second.ret = <<"weatherCodeMin", "weatherCodeMax", "windDirection">>

\* C20 as stated: each filter applied to its own result for the same target
\* returns that result unchanged.
C20_FilterIdempotent ==
  (pc = "refiltered") => (frame.second.exc = None /\ frame.second.ret = result.ret)

\* C20 as amended: process_v4_fields applied to the list it returned returns
\* that list and removes nothing; process_v3_fields returns a comma-joined
\* str, and applied to the names in that str it returns the same str, while
\* applied to the str itself it returns the empty str.
C20_FilterIdempotentOnNames ==
  /\ (pc = "refiltered" /\ call.op = "process_v4_fields") =>
       /\ frame.second.exc = None
       /\ frame.second.ret = result.ret
       /\ frame.second.log = <<>>
  /\ (pc = "refiltered_split" /\ call.op = "process_v3_fields") =>
       /\ frame.second.exc = None
       /\ frame.second.ret = result.ret
       /\ (result.ret.tokens # <<>>) => frame.second.log = <<>>
  /\ (pc = "refiltered" /\ call.op = "process_v3_fields") =>
       /\ frame.second.exc = None
       /\ frame.second.ret = Join(<<>>)

\* the legacy filter kept two of three names and, given those two names again,
\* returned the same str
C20_Witness ==
  /\ pc = "refiltered_split"
  /\ call.fields = <<"temp", "no_such_field">>
  /\ call.target = FORECAST_DAILY
  /\ result.ret = Join(<<"temp">>)
  /\ frame.second.ret = result.ret

---------------------------------------------------------------------------
(* Claims about the constructors *)

Constructed == pc = "done" /\ call.op = "__init__"

\* the selector the constructor was given, its default included, ignoring case
SelectorGiven ==
  lower(IF call.args.has_unit_system THEN call.args.unit_system
        ELSE DefaultUnitSystem(call.client))

\* the selector of the client's generation that a selector stands for
Canonical(client, selector) ==
  IF client = "v3"
  THEN (IF selector \in {"us", "imperial"} THEN "us" ELSE "si")
  ELSE (IF selector \in {"us", "imperial"} THEN "imperial" ELSE "metric")

\* C18 as stated: both constructors accept us, si, imperial and metric in any
\* case, us standing for imperial and si for metric, and reject every other
\* selector; the stored unit system is one of the generation's two selectors.
C18_UnitSystemSynonyms ==
  Constructed =>
    IF SelectorGiven \in {"us", "si", "imperial", "metric"}
    THEN /\ result.exc = None
         /\ result.ret.unit_system = Canonical(call.client, SelectorGiven)
    ELSE result.exc # None

\* C18 as amended: ClimaCellV4 accepts us, si, imperial and metric in any case
\* and stores imperial for us and metric for si; ClimaCellV3 accepts only us
\* and si in any case; every other selector raises ValueError in the
\* constructor; the stored unit system is one of the generation's two
\* selectors and is the one sent as the client's parameter.
C18_UnitSystemPerGeneration ==
  Constructed =>
    LET accepted == IF call.client = "v3" THEN {"us", "si"}
                    ELSE {"us", "si", "imperial", "metric"}
    IN  IF SelectorGiven \in accepted
        THEN /\ result.exc = None
             /\ result.ret.unit_system = Canonical(call.client, SelectorGiven)
             /\ IF call.client = "v3"
                THEN result.ret.params.unit_system = result.ret.unit_system
                ELSE result.ret.params.units = result.ret.unit_system
        ELSE /\ result.exc = "ValueError"
             /\ result.msg = IF call.client = "v3" THEN MSG_UNITS_V3 ELSE MSG_UNITS_V4

\* ClimaCellV4 given SI stored metric
C18_Witness ==
  /\ Constructed
  /\ call.client = "v4"
  /\ call.args.has_unit_system
  /\ call.args.unit_system = "SI"
  /\ result.exc = None
  /\ result.ret.unit_system = "metric"

---------------------------------------------------------------------------
(* Claims about the fields the clients send *)

MethodCall == call.client \in {"v3", "v4"} /\ call.op # "__init__"

\* whether the catalog offers a requested field for the target of a request
KeepV3(field, endpoint) ==
  field \in V3Keys /\ endpoint \in ToSet(GetFieldsV3(field))

KeepV4(field, timestep) ==
  /\ field \in V4Keys
  /\ C2_Keeps(GetFieldsV4(field).timestep[1], GetFieldsV4(field).timestep[2],
              timestep)

\* the timestep, in minutes, the i-th request of the modern call is for; the
\* second request of realtime_and_all_forecasts is for three at once
RequestTimesteps(i) ==
  CASE call.op = "realtime" -> {0}
    [] call.op = "forecast_hourly" -> {60}
    [] call.op = "forecast_daily" -> {1440}
    [] call.op = "forecast_nowcast" -> {call.timestep}
    [] call.op = "realtime_and_all_forecasts" ->
         IF i = 1 THEN {0} ELSE {call.timestep, 60, 1440}

\* the list the caller passed for the i-th request
RequestedFor(i) ==
  IF call.op = "realtime_and_all_forecasts" /\ i = 2 THEN call.forecast_fields
  ELSE call.fields

\* the requested fields valid for the i-th request, in request order
ValidSubset(i) ==
  IF call.client = "v3"
  THEN LET Keep(f) == KeepV3(f, V3Endpoint(call.op))
       IN  SelectSeq(RequestedFor(i), Keep)
  ELSE LET Keep(f) == \A t \in RequestTimesteps(i) : KeepV4(f, t)
       IN  SelectSeq(RequestedFor(i), Keep)

\* the fields value a request carries when it carries exactly that subset
CarriesSubset(i) ==
  IF call.client = "v3"
  THEN requests[i].params.fields = Join(ValidSubset(i))
  ELSE requests[i].params.fields \in
         {ValidSubset(i), convert_fields_to_measurements(ValidSubset(i))}

\* whether the call has anything but its field list to fail for before it
\* sends: the time range of a legacy call, the timestep of a modern nowcast
FailsForAnotherReason ==
  \/ /\ IsV3(V3TimedOps)
     /\ V3Validation(call.op, call.start_time, call.end_time, call.duration,
                     frame.now).exc # None
  \/ IsV4({"forecast_nowcast"}) /\ call.timestep \notin {1, 5, 15, 30}

PastSending == pc \in {"sent", "done"}

\* C11: a call whose field list is partly or wholly invalid does not fail for
\* that reason: its request is dispatched with the valid subset of the list,
\* also when the subset is empty.
C11_NarrowedListDispatched ==
  (MethodCall /\ PastSending /\ ~FailsForAnotherReason) =>
    /\ requests # <<>>
    /\ \A i \in DOMAIN requests : CarriesSubset(i)

\* C11 for the methods that call a field filter, which are all but
\* realtime_and_all_forecasts
C11_NarrowedListDispatchedByFilteringMethods ==
  (call.op # "realtime_and_all_forecasts") => C11_NarrowedListDispatched

\* a name the entry of a modern fields value stands for: the entry itself or
\* the field it is a measurement of
IsEntryOf(entry, field) ==
  \/ entry = field
  \/ /\ field \in V4Keys
     /\ \E k \in DOMAIN GetFieldsV4(field).measurements :
          entry = field \o GetFieldsV4(field).measurements[k]

\* C13: every request dispatched by a public operation of either client
\* carries only requested fields that are in the catalog and applicable to the
\* request's endpoint or timestep (in the modern protocol possibly with a
\* measurement suffix).
C13_RequestsCarryFilteredFields ==
  MethodCall =>
    \A i \in DOMAIN requests :
      IF call.client = "v3"
      THEN \A k \in DOMAIN requests[i].params.fields.tokens :
             (k % 2 = 1) =>
               /\ requests[i].params.fields.tokens[k] \in ToSet(RequestedFor(i))
               /\ KeepV3(requests[i].params.fields.tokens[k], V3Endpoint(call.op))
      ELSE \A k \in DOMAIN requests[i].params.fields :
             \E f \in ToSet(RequestedFor(i)) :
               /\ IsEntryOf(requests[i].params.fields[k], f)
               /\ \E t \in RequestTimesteps(i) : KeepV4(f, t)

\* the granularity texts the claim gives an operation of the modern client
TimestepsOf(op, timestep) ==
  CASE op = "realtime" -> <<"current">>
    [] op = "forecast_hourly" -> <<"1h">>
    [] op = "forecast_daily" -> <<"1d">>
    [] op = "forecast_nowcast" -> <<ToString(timestep) \o "m">>

\* C17: every request body of realtime, forecast_nowcast, forecast_hourly and
\* forecast_daily of the modern client carries the granularity under the key
\* timesteps, as an array matching the operation's timestep, with fields as an
\* array and the client's location and units.
C17_BodyCarriesTimesteps ==
  IsV4({"realtime", "forecast_nowcast", "forecast_hourly", "forecast_daily"}) =>
    \A i \in DOMAIN requests :
      /\ "timesteps" \in DOMAIN requests[i].params
      /\ requests[i].params.timesteps = TimestepsOf(call.op, call.timestep)
      /\ "fields" \in DOMAIN requests[i].params
      /\ DOMAIN requests[i].params.fields = 1..Len(requests[i].params.fields)
      /\ requests[i].base.location = call.self.params.location
      /\ requests[i].base.units = call.self.params.units

---------------------------------------------------------------------------
(* Claims about sessions, round trips and the synchronous clients *)

\* C14: a session the caller supplied carries every request and is never
\* closed, whatever the outcome; without one, each _call_api opens a session
\* of its own, sends its one request on it and has closed it when the call
\* has returned or raised.
C14_SessionLifetime ==
  MethodCall =>
    IF call.self.session
    THEN /\ frame.opened = 0
         /\ frame.closed = 0
         /\ frame.session = IF requests = <<>> THEN "none" ELSE "supplied"
         /\ \A i \in DOMAIN requests :
              requests[i].session = [supplied |-> TRUE, id |-> 0]
    ELSE /\ frame.opened = Len(requests)
         /\ \A i \in DOMAIN requests :
              requests[i].session = [supplied |-> FALSE, id |-> i]
         /\ (pc = "sent") =>
              frame.session = "open" /\ frame.closed = frame.opened - 1
         /\ (pc = "done") =>
              frame.session # "open" /\ frame.closed = frame.opened

\* a call on the caller's session has raised, and the session is still open
C14_Witness ==
  /\ MethodCall
  /\ call.self.session
  /\ pc = "done"
  /\ result.exc = "CantConnectException"
  /\ frame.session = "supplied"

\* the answer to the last request of the call
LastResponse ==
  IF call.op = "realtime_and_all_forecasts" /\ Len(requests) = 1
  THEN frame.first
  ELSE frame.response

\* the round trip failed: no connection, or an error status
RoundTripFailed(response) ==
  response.kind = "connection_error" \/ response.status >= 400

HasRaised == result.exc \notin {None, "pending"}

\* a failed round trip ends the call with an exception
FailureSurfaced ==
  (pc = "done" /\ requests # <<>> /\ RoundTripFailed(LastResponse)) => HasRaised

\* C15: every public operation makes exactly one round trip when its
\* validation passes and none when it fails; a failed round trip is raised to
\* the caller and not retried.
C15_OneRoundTrip ==
  MethodCall =>
    /\ Len(requests) <= 1
    /\ (pc = "done") => Len(requests) = IF FailsForAnotherReason THEN 0 ELSE 1
    /\ FailureSurfaced

\* C15 as the code has it: every public operation but
\* realtime_and_all_forecasts makes exactly one round trip when its validation
\* passes and none when it fails; realtime_and_all_forecasts makes two, one
\* after the other, the second only when the first succeeded; a failed round
\* trip ends the call with its exception and no request follows it.
C15_RoundTripsPerOperation ==
  MethodCall =>
    /\ (call.op # "realtime_and_all_forecasts") =>
         /\ Len(requests) <= 1
         /\ (pc = "done") =>
              Len(requests) = IF FailsForAnotherReason THEN 0 ELSE 1
    /\ (call.op = "realtime_and_all_forecasts") =>
         /\ Len(requests) <= 2
         /\ (Len(requests) = 2) =>
              frame.first.kind = "response" /\ ~RoundTripFailed(frame.first)
         /\ (pc = "done") => Len(requests) = IF HasRaised /\ frame.response.kind = None
                                              THEN 1 ELSE 2
    /\ FailureSurfaced

\* the second round trip of realtime_and_all_forecasts has failed
C15_Witness ==
  /\ IsV4({"realtime_and_all_forecasts"})
  /\ pc = "done"
  /\ Len(requests) = 2
  /\ RoundTripFailed(frame.response)
  /\ HasRaised

\* what the asynchronous method gives for the arguments of a call, the clock
\* it read and the transport's answers
AsyncOutcome(k, clock, first, response) ==
  CASE k.client = "v3" /\ k.op = "realtime" -> V3CallApi(response)
    [] k.client = "v3" /\ k.op # "realtime" ->
         LET validation == V3Validation(k.op, k.start_time, k.end_time,
                                        k.duration, clock)
         IN  IF validation.exc # None THEN validation ELSE V3CallApi(response)
    [] k.client = "v4" /\ k.op = "realtime" -> V4CallApi(response)
    [] k.client = "v4" /\ k.op \in V4ForecastOps ->
         LET built == V4Forecast(k.op, k.fields, k.start_time, k.has_duration,
                                 k.duration, k.timestep, clock)
         IN  IF built.exc # None THEN built ELSE V4CallApi(response)
    [] k.client = "v4" /\ k.op = "realtime_and_all_forecasts" ->
         IF V4CallApi(first).exc # None THEN V4CallApi(first)
         ELSE IF V4CallApi(response).exc # None THEN V4CallApi(response)
         ELSE RealtimeAndAllResult

---------------------------------------------------------------------------
(* Claims about the catalogs' listings *)

ListingDone == pc = "done" /\ call.op = "available_fields"

\* the listing agrees with the filter's outcome on the whole catalog: both
\* return the same names in the same order, or both raise InvalidTimestep
AgreesWithFilter ==
  IF call.client = "v3"
  THEN /\ result.exc = None
       /\ frame.second.exc = None
       /\ Join(result.ret) = frame.second.ret
  ELSE /\ (result.exc = "InvalidTimestep") <=> (frame.second.exc = "InvalidTimestep")
       /\ (frame.second.exc = None) =>
            (result.exc = None /\ result.ret = frame.second.ret)

\* C21: for every timestep the modern filter accepts,
\* ClimaCellV4.available_fields(timestep) without types returns exactly what
\* process_v4_fields returns for the whole catalog and that timestep, and it
\* raises InvalidTimestep exactly when the filter does;
\* ClimaCellV3.available_fields(endpoint) likewise gives the names the legacy
\* filter gives for the whole legacy catalog.
C21_ListingEqualsFilterOnCatalog ==
  (ListingDone /\ ~call.has_types) => AgreesWithFilter

\* C21 for every timestep but zero
C21_ListingEqualsFilterOnCatalogButCurrent ==
  (ListingDone /\ ~call.has_types) =>
    (call.client = "v4" /\ AvailableBranch(call.target) = "current")
    \/ AgreesWithFilter

---------------------------------------------------------------------------
(* Claims about the times of a modern forecast request *)

\* the instant a timestamp of a request body names, in minutes of UTC
InstantOf(stamp) == stamp.t - stamp.off

\* a timestamp of a request body that is tagged as UTC
UtcTagged(stamp) == stamp.has_offset /\ stamp.off = 0

NaiveStartTime == call.start_time.some /\ ~call.start_time.aware

\* whenever both are sent, endTime - startTime is the requested duration
EndMinusStartIsDuration(params) ==
  ({"startTime", "endTime"} \subseteq DOMAIN params) =>
    InstantOf(params.endTime) - InstantOf(params.startTime) = call.duration

\* C22: in every modern forecast request a start_time without a timezone is
\* taken as UTC: startTime, and the endTime derived from it, are UTC-tagged
\* and name the instants a start_time given explicitly in UTC would; and
\* whenever both are sent, endTime - startTime is the requested duration.
C22_NaiveStartTimeSentAsUtc ==
  IsV4(V4ForecastOps) =>
    \A i \in DOMAIN requests :
      /\ NaiveStartTime =>
           /\ "startTime" \in DOMAIN requests[i].params
           /\ UtcTagged(requests[i].params.startTime)
           /\ requests[i].params.startTime.t = call.start_time.t
           /\ ("endTime" \in DOMAIN requests[i].params) =>
                /\ UtcTagged(requests[i].params.endTime)
                /\ requests[i].params.endTime.t = call.start_time.t + call.duration
      /\ EndMinusStartIsDuration(requests[i].params)

\* the part of C22 about the duration, and the instants sent for a naive
\* start_time apart from their tag
C22_EndMinusStartIsDuration ==
  IsV4(V4ForecastOps) =>
    \A i \in DOMAIN requests :
      /\ NaiveStartTime =>
           /\ "startTime" \in DOMAIN requests[i].params
           /\ requests[i].params.startTime.t = call.start_time.t
      /\ EndMinusStartIsDuration(requests[i].params)
=============================================================================
